---- MODULE Spec2Model ----
(***************************************************************************)
(* Carbon travel API: the emission calculators, the confidence scorer, the *)
(* alternatives engine and the request handlers that sequence them.        *)
(*                                                                         *)
(* The service is stateless: a request is received, a handler computes the *)
(* response from the read-only reference tables, and the response is sent. *)
(* The state is the request being handled, the local variables the handler *)
(* holds when it returns, and the response built for the request.          *)
(* The reference tables handed out by the table endpoints are state too,   *)
(* with the workers of the host framework that read them concurrently.     *)
(*                                                                         *)
(* Units.  Emissions are held in hundredths of a kg (every emissions_kg    *)
(* the code returns is round(x, 2)); flight distances in tenths of a km    *)
(* (calculate_distance_km returns round(d, 1)); confidence scores in       *)
(* hundredths; percentages in tenths of a percent (round(p, 1)).           *)
(***************************************************************************)
EXTENDS Integers, Sequences, FiniteSets, TLC

VARIABLES pc, request, locals, response, tables, workers

vars == <<pc, request, locals, response, tables, workers>>

\* ------------------------------------------------------------------ bounds
\* Longest itinerary handed to the alternatives engine.
MaxSegments == 3
\* Longest hotel stay, in nights, of the calculator's inputs.
MaxNights == 3
\* Largest room / person count of the calculator's inputs.
MaxCount == 2
\* Largest max_alternatives asked of the engine.
MaxAlternatives == 3
\* Longest itinerary posted to /v1/assess and /v1/alternatives.
MaxRequestSegments == 2
\* Widest distance, in tenths of a km, probed on either side of a haul limit.
MaxOffset == 20
\* Longest batch of freely mixed itineraries posted to /v1/assess/batch.
MaxBatch == 2
\* Requests the reference-table endpoints handle at the same time.
MaxWorkers == 2

\* ----------------------------------------------------------------- helpers
Max(a, b) == IF a >= b THEN a ELSE b
Min(a, b) == IF a <= b THEN a ELSE b

\* Python round(): n / d rounded to the nearest integer, d > 0 (\div is the
\* floor, % is non-negative).  An exact tie goes to the even neighbour here;
\* Python rounds the binary double nearest to the decimal value, so on an
\* exact decimal tie its result may be the other neighbour.
RoundDiv(n, d) ==
    LET q == n \div d
        r == n % d
    IN  IF 2 * r < d THEN q
        ELSE IF 2 * r > d THEN q + 1
        ELSE IF q % 2 = 0 THEN q ELSE q + 1

\* Python's None.
None == "None"

\* ---------------------------------------------------- airports and distance
\* str.upper() on the airport and country codes the model feeds in.
Upper(s) ==
    CASE s = "lhr" -> "LHR"
      [] s = "cdg" -> "CDG"
      [] s = "gb" -> "GB"
      [] OTHER -> s

\* str.lower() on the category names the model feeds in.
Lower(s) ==
    CASE s = "BUSINESS" -> "business"
      [] s = "Short" -> "short"
      [] OTHER -> s

\* The airports of AIRPORTS that the model carries: every airport of the
\* engine's train table, one medium-haul and one long-haul destination.
AIRPORTS ==
    {"LHR", "LGW", "STN", "CDG", "BRU", "AMS", "FRA", "MUC", "BER", "MXP",
     "BCN", "FCO", "MAD", "IST", "JFK"}

get_airport(code) == IF Upper(code) \in AIRPORTS THEN Upper(code) ELSE None

\* calculate_distance_km over those airports: the haversine formula of the
\* source (R = 6371.0, math.radians / sin / cos / atan2) evaluated on the
\* AIRPORTS coordinates and rounded to one decimal, in tenths of a km.
HAVERSINE_TENTHS ==
    [
     LHR |-> [LHR |-> 0, LGW |-> 399, STN |-> 662, CDG |-> 3470, BRU |->
             3499, AMS |-> 3703, FRA |-> 6535, MUC |-> 9411, BER |-> 9609,
             MXP |-> 9359, BCN |-> 11475, FCO |-> 14435, MAD |-> 12432, IST
             |-> 24883, JFK |-> 55400],
     LGW |-> [LHR |-> 399, LGW |-> 0, STN |-> 863, CDG |-> 3078, BRU |->
             3275, AMS |-> 3643, FRA |-> 6292, MUC |-> 9132, BER |-> 9500,
             MXP |-> 8988, BCN |-> 11096, FCO |-> 14056, MAD |-> 12132, IST
             |-> 24607, JFK |-> 55689],
     STN |-> [LHR |-> 662, LGW |-> 863, STN |-> 0, CDG |-> 3592, BRU |->
             3144, AMS |-> 3132, FRA |-> 6179, MUC |-> 9110, BER |-> 9061,
             MXP |-> 9322, BCN |-> 11856, FCO |-> 14422, MAD |-> 12991, IST
             |-> 24558, JFK |-> 55710],
     CDG |-> [LHR |-> 3470, LGW |-> 3078, STN |-> 3592, CDG |-> 0, BRU |->
             2519, AMS |-> 3990, FRA |-> 4488, MUC |-> 6817, BER |-> 8561,
             MXP |-> 5982, BCN |-> 8584, FCO |-> 11006, MAD |-> 10617, IST
             |-> 22137, JFK |-> 58335],
     BRU |-> [LHR |-> 3499, LGW |-> 3275, STN |-> 3144, CDG |-> 2519, BRU
             |-> 0, AMS |-> 1579, FRA |-> 3041, MUC |-> 5970, BER |-> 6429,
             MXP |-> 6647, BCN |-> 10838, FCO |-> 11725, MAD |-> 13131, IST
             |-> 21415, JFK |-> 58854],
     AMS |-> [LHR |-> 3703, LGW |-> 3643, STN |-> 3132, CDG |-> 3990, BRU
             |-> 1579, AMS |-> 0, FRA |-> 3657, MUC |-> 6641, BER |-> 5931,
             MXP |-> 7967, BCN |-> 12414, FCO |-> 12969, MAD |-> 14584, IST
             |-> 21836, JFK |-> 58476],
     FRA |-> [LHR |-> 6535, LGW |-> 6292, STN |-> 6179, CDG |-> 4488, BRU
             |-> 3041, AMS |-> 3657, FRA |-> 0, MUC |-> 2999, BER |-> 4306,
             MXP |-> 4902, BCN |-> 10938, FCO |-> 9588, MAD |-> 14199, IST
             |-> 18381, JFK |-> 61885],
     MUC |-> [LHR |-> 9411, LGW |-> 9132, STN |-> 9110, CDG |-> 6817, BRU
             |-> 5970, AMS |-> 6641, FRA |-> 2999, MUC |-> 0, BER |-> 4625,
             MXP |-> 3814, BCN |-> 10946, FCO |-> 7296, MAD |-> 14954, IST
             |-> 15476, JFK |-> 64809],
     BER |-> [LHR |-> 9609, LGW |-> 9500, STN |-> 9061, CDG |-> 8561, BRU
             |-> 6429, AMS |-> 5931, FRA |-> 4306, MUC |-> 4625, BER |-> 0,
             MXP |-> 8256, BCN |-> 15029, FCO |-> 11788, MAD |-> 18493, IST
             |-> 16865, JFK |-> 63901],
     MXP |-> [LHR |-> 9359, LGW |-> 8988, STN |-> 9322, CDG |-> 5982, BRU
             |-> 6647, AMS |-> 7967, FRA |-> 4902, MUC |-> 3814, BER |->
             8256, MXP |-> 0, BCN |-> 7208, FCO |-> 5108, MAD |-> 11486, IST
             |-> 16822, JFK |-> 64126],
     BCN |-> [LHR |-> 11475, LGW |-> 11096, STN |-> 11856, CDG |-> 8584, BRU
             |-> 10838, AMS |-> 12414, FRA |-> 10938, MUC |-> 10946, BER |->
             15029, MXP |-> 7208, BCN |-> 0, FCO |-> 8469, MAD |-> 4827, IST
             |-> 22198, JFK |-> 61501],
     FCO |-> [LHR |-> 14435, LGW |-> 14056, STN |-> 14422, CDG |-> 11006,
             BRU |-> 11725, AMS |-> 12969, FRA |-> 9588, MUC |-> 7296, BER
             |-> 11788, MXP |-> 5108, BCN |-> 8469, FCO |-> 0, MAD |->
             13295, IST |-> 13735, JFK |-> 68656],
     MAD |-> [LHR |-> 12432, LGW |-> 12132, STN |-> 12991, CDG |-> 10617,
             BRU |-> 13131, AMS |-> 14584, FRA |-> 14199, MUC |-> 14954, BER
             |-> 18493, MXP |-> 11486, BCN |-> 4827, FCO |-> 13295, MAD |->
             0, IST |-> 27025, JFK |-> 57604],
     IST |-> [LHR |-> 24883, LGW |-> 24607, STN |-> 24558, CDG |-> 22137,
             BRU |-> 21415, AMS |-> 21836, FRA |-> 18381, MUC |-> 15476, BER
             |-> 16865, MXP |-> 16822, BCN |-> 22198, FCO |-> 13735, MAD |->
             27025, IST |-> 0, JFK |-> 80266],
     JFK |-> [LHR |-> 55400, LGW |-> 55689, STN |-> 55710, CDG |-> 58335,
             BRU |-> 58854, AMS |-> 58476, FRA |-> 61885, MUC |-> 64809, BER
             |-> 63901, MXP |-> 64126, BCN |-> 61501, FCO |-> 68656, MAD |->
             57604, IST |-> 80266, JFK |-> 0]
    ]

\* calculate_distance_km returns None when either airport is unknown; the
\* model writes that None as a distance no pair of airports has.
NO_DISTANCE == -1

calculate_distance_km(origin, destination) ==
    IF get_airport(origin) = None \/ get_airport(destination) = None
    THEN NO_DISTANCE
    ELSE HAVERSINE_TENTHS[get_airport(origin)][get_airport(destination)]

\* Thresholds of get_haul_type, in tenths of a km.
SHORT_HAUL_LIMIT == 15000
MEDIUM_HAUL_LIMIT == 40000

\* A classification whose medium band stops short of its upper threshold.
get_haul_type_exclusive(distance_km) ==
    IF distance_km < SHORT_HAUL_LIMIT THEN "short"
    ELSE IF distance_km < MEDIUM_HAUL_LIMIT THEN "medium"
    ELSE "long"

get_haul_type(distance_km) ==
    IF distance_km < SHORT_HAUL_LIMIT THEN "short"
    ELSE IF distance_km <= MEDIUM_HAUL_LIMIT THEN "medium"
    ELSE "long"

\* The classification written out again in GET /v1/factors/distance.
route_distance_haul_type(distance) ==
    IF distance < SHORT_HAUL_LIMIT THEN "short"
    ELSE IF distance <= MEDIUM_HAUL_LIMIT THEN "medium"
    ELSE "long"

\* GET /v1/factors/distance: 400 without both codes, 404 for an unknown
\* airport, else the distance and its haul type.
route_distance_found(distance) ==
    [status |-> 200,
     distance_km |-> distance,
     haul_type |-> route_distance_haul_type(distance)]

calculate_route_distance(origin, destination) ==
    IF Upper(origin) = "" \/ Upper(destination) = ""
    THEN [status |-> 400, code |-> "VALIDATION_ERROR"]
    ELSE IF get_airport(Upper(origin)) = None \/ get_airport(Upper(destination)) = None
    THEN [status |-> 404, code |-> "NOT_FOUND"]
    ELSE route_distance_found(calculate_distance_km(Upper(origin), Upper(destination)))

\* ------------------------------------------------------------ flight factors
\* FLIGHT_FACTORS_PER_KM: kg CO2e per passenger-km.  The source writes each
\* entry as the economy factor times 1.0 / 1.5 / 3.0 / 4.0; here the economy
\* factor is in thousandths and the multiplier in tenths, so an entry is in
\* units of 0.0001 kg per km.
ECONOMY_FACTOR == [short |-> 156, medium |-> 130, long |-> 111]
CABIN_MULTIPLIER ==
    [economy |-> 10, premium_economy |-> 15, business |-> 30, first |-> 40]

FLIGHT_FACTORS_PER_KM ==
    [h \in DOMAIN ECONOMY_FACTOR |->
        [c \in DOMAIN CABIN_MULTIPLIER |-> ECONOMY_FACTOR[h] * CABIN_MULTIPLIER[c]]]

RADIATIVE_FORCING_MULTIPLIER == 1

\* A factor lookup that ignores the cabin class.
get_flight_factor_of_economy(haul_type, cabin_class) ==
    IF Lower(haul_type) \in DOMAIN FLIGHT_FACTORS_PER_KM
    THEN FLIGHT_FACTORS_PER_KM[Lower(haul_type)]["economy"]
    ELSE FLIGHT_FACTORS_PER_KM["medium"]["economy"]

get_flight_factor(haul_type, cabin_class) ==
    LET haul0 == Lower(haul_type)
        cabin0 == Lower(cabin_class)
        haul == IF haul0 \notin DOMAIN FLIGHT_FACTORS_PER_KM THEN "medium" ELSE haul0
        cabin == IF cabin0 \notin DOMAIN FLIGHT_FACTORS_PER_KM[haul]
                 THEN "economy" ELSE cabin0
    IN  FLIGHT_FACTORS_PER_KM[haul][cabin]

\* calculate_flight_emissions (app/services/flight_calculator.py, which the
\* repository's callers import): distance, haul type, factor of (haul type,
\* cabin class), times the distance, times the radiative-forcing multiplier.
\* The callers test the result for None, returned when an airport does not
\* resolve: here found = FALSE.  emissions_kg is rounded to two decimals like
\* the emissions_kg of every other calculator.
flight_emissions_result(distance_km, haul_type, factor) ==
    [found |-> TRUE,
     emissions_kg |-> RoundDiv(distance_km * factor * RADIATIVE_FORCING_MULTIPLIER, 1000),
     distance_km |-> distance_km,
     haul_type |-> haul_type,
     confidence_factors |->
         <<[factor |-> "haul_type_accuracy", description |-> haul_type]>>]

flight_emissions_of_distance(distance_km, cabin_class) ==
    IF distance_km = NO_DISTANCE
    THEN [found |-> FALSE]
    ELSE flight_emissions_result(
             distance_km,
             get_haul_type(distance_km),
             get_flight_factor(get_haul_type(distance_km), cabin_class))

calculate_flight_emissions(origin, destination, cabin_class) ==
    flight_emissions_of_distance(calculate_distance_km(origin, destination), cabin_class)

\* ------------------------------------------------------------ grid intensity
\* GRID_INTENSITY, the countries the model carries: measured and estimated
\* entries, the lowest and the highest intensity of the table.
GRID_INTENSITY ==
    [GB |-> [intensity |-> 198, source |-> "National Grid 2024", quality |-> "measured"],
     FR |-> [intensity |-> 56, source |-> "ENTSO-E 2024", quality |-> "measured"],
     IS |-> [intensity |-> 28, source |-> "IEA 2024", quality |-> "measured"],
     PL |-> [intensity |-> 773, source |-> "ENTSO-E 2024", quality |-> "measured"],
     TR |-> [intensity |-> 438, source |-> "IEA 2024", quality |-> "estimated"]]

DEFAULT_INTENSITY ==
    [intensity |-> 475, source |-> "IPCC 2024 global average", quality |-> "default"]

get_grid_intensity(country_code) ==
    LET country == Upper(country_code)
    IN  IF country \in DOMAIN GRID_INTENSITY
        THEN GRID_INTENSITY[country]
        ELSE DEFAULT_INTENSITY

\* str.lower() on the source labels of the grid table.
LowerSource(s) ==
    CASE s = "National Grid 2024" -> "national grid 2024"
      [] s = "ENTSO-E 2024" -> "entso-e 2024"
      [] s = "IEA 2024" -> "iea 2024"
      [] s = "IPCC 2024 global average" -> "ipcc 2024 global average"
      [] OTHER -> s

\* ------------------------------------------------------------- hotel factors
\* HOTEL_ENERGY_KWH_PER_NIGHT, by star rating.
HOTEL_ENERGY_KWH_PER_NIGHT == <<25, 30, 40, 55, 80>>

\* ECO_CERTIFIED_DISCOUNT = 0.35, in hundredths.
ECO_CERTIFIED_DISCOUNT == 35

get_hotel_energy(star_rating) ==
    HOTEL_ENERGY_KWH_PER_NIGHT[IF star_rating < 1 THEN 1
                               ELSE IF star_rating > 5 THEN 5 ELSE star_rating]

\* BREAKFAST_FACTORS: kg CO2e per person per breakfast, in hundredths.
BREAKFAST_FACTORS ==
    [none |-> 0, continental |-> 80, buffet |-> 220, full_english |-> 280, vegan |-> 50]

\* A breakfast count that forgets the persons: one breakfast per night.
calculate_breakfast_emissions_per_night(breakfast_type, nights, persons) ==
    IF breakfast_type \in DOMAIN BREAKFAST_FACTORS
    THEN BREAKFAST_FACTORS[breakfast_type] * nights
    ELSE 0

\* emissions_kg of calculate_breakfast_emissions (already rounded there).
calculate_breakfast_emissions(breakfast_type, nights, persons) ==
    LET factor == IF breakfast_type \in DOMAIN BREAKFAST_FACTORS
                  THEN BREAKFAST_FACTORS[breakfast_type] ELSE 0
    IN  factor * nights * persons

\* calculate_hotel_emissions.  check_in and check_out are dates, as day
\* numbers.  The energy per room-night is held in hundredths of a kWh, so
\* energy * nights * rooms * intensity is in 1/100000 kg and the breakfast
\* (hundredths of a kg) is scaled by 1000 before the one final round(x, 2).
calculate_hotel_emissions(country_code, check_in, check_out, star_rating0, room_count, persons, sustainability_certified, breakfast_type) ==
    LET nights == IF check_out - check_in < 1 THEN 1 ELSE check_out - check_in
        star_rating == Max(1, Min(5, star_rating0))
        energy_kwh_per_night ==
            IF sustainability_certified
            THEN get_hotel_energy(star_rating) * (100 - ECO_CERTIFIED_DISCOUNT)
            ELSE get_hotel_energy(star_rating) * 100
        grid_data == get_grid_intensity(country_code)
        total_energy_kwh == energy_kwh_per_night * nights * room_count
        room_emissions == total_energy_kwh * grid_data.intensity
        breakfast_emissions_kg ==
            calculate_breakfast_emissions(breakfast_type, nights, persons)
    IN  [emissions_kg |-> RoundDiv(room_emissions + 1000 * breakfast_emissions_kg, 1000),
         nights |-> nights,
         rooms |-> room_count,
         persons |-> persons,
         energy_consumption_kwh |-> total_energy_kwh,
         grid_carbon_intensity |->
             [value |-> grid_data.intensity, source |-> grid_data.source],
         star_rating |-> star_rating,
         sustainability_certified |-> sustainability_certified,
         breakfast_emissions_kg |-> breakfast_emissions_kg,
         confidence_factors |->
             <<[factor |-> (IF grid_data.quality = "measured" THEN "measured_grid_data"
                            ELSE IF grid_data.quality = "estimated"
                            THEN "estimated_grid_data" ELSE "default_grid_data"),
                description |-> "grid"]>>
             \o (IF sustainability_certified
                 THEN <<[factor |-> "eco_certification", description |-> "hotel"]>>
                 ELSE <<>>)
             \o <<[factor |-> "hotel_benchmark", description |-> "hotel"]>>
             \o (IF breakfast_type # "none"
                 THEN <<[factor |-> "breakfast_included", description |-> "hotel"]>>
                 ELSE <<>>)]

\* ---------------------------------------------------------- confidence scorer
\* Base score and adjustments of calculate_confidence_score, in hundredths.
BASE_SCORE == 65
CARRIER_BONUS == 5
AIRCRAFT_BONUS == 5
MEASURED_GRID_BONUS == 10
ESTIMATED_GRID_BONUS == 3
DEFAULT_GRID_PENALTY == 10
SHORT_HAUL_BONUS == 5
LONG_HAUL_BONUS == 2
HOTEL_CHAIN_BONUS == 8
HIGH_LEVEL_SCORE == 80
MEDIUM_LEVEL_SCORE == 60

Factor(name, description) == [factor |-> name, description |-> description]

\* A deduplication that keeps the last entry of each factor name.
RECURSIVE UniqueFactorsKeepingLast(_, _)
UniqueFactorsKeepingLast(all_factors, seen) ==
    IF all_factors = <<>> THEN <<>>
    ELSE IF \E i \in 2..Len(all_factors) : all_factors[i].factor = Head(all_factors).factor
         THEN UniqueFactorsKeepingLast(Tail(all_factors), seen)
         ELSE <<Head(all_factors)>> \o UniqueFactorsKeepingLast(Tail(all_factors), seen)

\* The deduplication loop: an entry is kept when no earlier entry has its
\* factor name.
RECURSIVE UniqueFactors(_, _)
UniqueFactors(all_factors, seen) ==
    IF all_factors = <<>> THEN <<>>
    ELSE IF Head(all_factors).factor \in seen
         THEN UniqueFactors(Tail(all_factors), seen)
         ELSE <<Head(all_factors)>>
              \o UniqueFactors(Tail(all_factors), seen \cup {Head(all_factors).factor})

\* A grid adjustment with no else branch: a penalty for "default" only, and
\* nothing for a value it does not know.
grid_adjustment_known_values(grid_data_quality) ==
    IF grid_data_quality = "measured" THEN MEASURED_GRID_BONUS
    ELSE IF grid_data_quality = "estimated" THEN ESTIMATED_GRID_BONUS
    ELSE IF grid_data_quality = "default" THEN 0 - DEFAULT_GRID_PENALTY
    ELSE 0

\* The adjustment for the grid data quality: measured, estimated, or the
\* else branch that every other value takes.
grid_adjustment(grid_data_quality) ==
    IF grid_data_quality = "measured" THEN MEASURED_GRID_BONUS
    ELSE IF grid_data_quality = "estimated" THEN ESTIMATED_GRID_BONUS
    ELSE 0 - DEFAULT_GRID_PENALTY

\* The adjustment for the haul type: short, long, or none.
haul_adjustment(haul_type) ==
    IF haul_type = "short" THEN SHORT_HAUL_BONUS
    ELSE IF haul_type = "long" THEN LONG_HAUL_BONUS
    ELSE 0

\* The entries the scorer appends to its working list, in order.
appended_factors(has_carrier_data, has_aircraft_data, has_hotel_chain_data, grid_data_quality, haul_type) ==
    (IF has_carrier_data
     THEN <<Factor("airline_specific_data", "scorer")>> ELSE <<>>)
    \o (IF has_aircraft_data
        THEN <<Factor("aircraft_type_known", "scorer")>> ELSE <<>>)
    \o (IF grid_data_quality = "measured"
        THEN <<Factor("measured_grid_intensity", "scorer")>>
        ELSE IF grid_data_quality = "estimated"
        THEN <<Factor("estimated_grid_intensity", "scorer")>>
        ELSE <<Factor("default_grid_intensity", "scorer")>>)
    \o (IF haul_type = "short"
        THEN <<Factor("short_haul_accuracy", "scorer")>>
        ELSE IF haul_type = "long"
        THEN <<Factor("long_haul_route", "scorer")>>
        ELSE <<>>)
    \o (IF has_hotel_chain_data
        THEN <<Factor("hotel_chain_data", "scorer")>> ELSE <<>>)

\* The working list aliasing the caller's list: the appends reach it.
caller_factors_after_aliasing(factors, appended) == factors \o appended

\* The caller's list after a call: all_factors = list(factors) is a copy,
\* so the appends go to the copy and no entry is written to.
caller_factors_after(factors, appended) == factors

calculate_confidence_score(factors, has_carrier_data, has_aircraft_data, has_hotel_chain_data, grid_data_quality, haul_type) ==
    LET carrier == IF has_carrier_data THEN CARRIER_BONUS ELSE 0
        aircraft == IF has_aircraft_data THEN AIRCRAFT_BONUS ELSE 0
        grid == grid_adjustment(grid_data_quality)
        haul == haul_adjustment(haul_type)
        chain == IF has_hotel_chain_data THEN HOTEL_CHAIN_BONUS ELSE 0
        score_adjustments == carrier + aircraft + grid + haul + chain
        final_score == Min(100, Max(0, BASE_SCORE + score_adjustments))
        all_factors ==
            factors
            \o appended_factors(has_carrier_data, has_aircraft_data,
                                has_hotel_chain_data, grid_data_quality, haul_type)
    IN  [score |-> final_score,
         level |-> IF final_score >= HIGH_LEVEL_SCORE THEN "high"
                   ELSE IF final_score >= MEDIUM_LEVEL_SCORE THEN "medium"
                   ELSE "low",
         factors |-> UniqueFactors(all_factors, {})]

\* The factors of the results that have a confidence_factors attribute, in
\* order, through the same deduplication loop.
RECURSIVE factors_of_results(_)
factors_of_results(results) ==
    IF results = <<>> THEN <<>>
    ELSE (IF "confidence_factors" \in DOMAIN Head(results)
          THEN Head(results).confidence_factors ELSE <<>>)
         \o factors_of_results(Tail(results))

aggregate_confidence_factors(results) == UniqueFactors(factors_of_results(results), {})

\* --------------------------------------------------------------- train table
\* TRAIN_FACTORS_PER_KM: kg CO2e per passenger-km, in thousandths.
TRAIN_FACTORS_PER_KM ==
    [eurostar |-> 4, tgv |-> 3, ice |-> 32, uk_rail |-> 35,
     eu_high_speed |-> 15, eu_conventional |-> 41, diesel |-> 89]

\* A train factor lookup that falls back on conventional rail.
get_train_factor_default_conventional(train_type) ==
    IF train_type \in DOMAIN TRAIN_FACTORS_PER_KM
    THEN TRAIN_FACTORS_PER_KM[train_type]
    ELSE TRAIN_FACTORS_PER_KM["eu_conventional"]

get_train_factor(train_type) ==
    IF train_type \in DOMAIN TRAIN_FACTORS_PER_KM
    THEN TRAIN_FACTORS_PER_KM[train_type]
    ELSE TRAIN_FACTORS_PER_KM["eu_high_speed"]

Route(train_type, distance_km, duration_minutes) ==
    [train_type |-> train_type, distance_km |-> distance_km,
     duration_minutes |-> duration_minutes]

\* TRAIN_ROUTES of the alternatives engine, keyed by (origin, destination).
TRAIN_ROUTES ==
    (<<"LHR", "CDG">> :> Route("eurostar", 459, 136))
    @@ (<<"LGW", "CDG">> :> Route("eurostar", 459, 136))
    @@ (<<"STN", "CDG">> :> Route("eurostar", 459, 136))
    @@ (<<"LHR", "BRU">> :> Route("eurostar", 373, 122))
    @@ (<<"LHR", "AMS">> :> Route("eurostar", 450, 229))
    @@ (<<"CDG", "BRU">> :> Route("tgv", 306, 82))
    @@ (<<"CDG", "FRA">> :> Route("ice", 479, 232))
    @@ (<<"FRA", "MUC">> :> Route("ice", 304, 195))
    @@ (<<"FRA", "BER">> :> Route("ice", 423, 240))
    @@ (<<"FRA", "MXP">> :> Route("ice", 520, 480))
    @@ (<<"CDG", "BCN">> :> Route("tgv", 830, 382))
    @@ (<<"FCO", "MXP">> :> Route("eu_high_speed", 476, 175))
    @@ (<<"MAD", "BCN">> :> Route("eu_high_speed", 505, 155))

\* round(distance_km * emission_factor, 2) for a distance in km and a factor
\* in thousandths.  The product is a double: of the products of the table
\* the one exact decimal tie, 505 * 0.015, is 7.574999999999999 and rounds
\* down to 7.57.
train_emissions_kg(distance_km, emission_factor) ==
    IF (distance_km * emission_factor) % 10 = 5
    THEN (distance_km * emission_factor) \div 10
    ELSE RoundDiv(distance_km * emission_factor, 10)

\* A TrainAlternative computed with the default factor whatever the train
\* type of the route.
train_of_route_default_factor(route_info) ==
    [available |-> TRUE,
     train_type |-> route_info.train_type,
     emissions_kg |->
         train_emissions_kg(route_info.distance_km, get_train_factor("unknown")),
     distance_km |-> route_info.distance_km,
     duration_minutes |-> route_info.duration_minutes,
     emission_factor |-> get_train_factor("unknown")]

\* The TrainAlternative find_train_alternative builds from a route.
train_of_route(route_info) ==
    [available |-> TRUE,
     train_type |-> route_info.train_type,
     emissions_kg |->
         train_emissions_kg(route_info.distance_km,
                            get_train_factor(route_info.train_type)),
     distance_km |-> route_info.distance_km,
     duration_minutes |-> route_info.duration_minutes,
     emission_factor |-> get_train_factor(route_info.train_type)]

\* A lookup by the origin alone: any route that leaves the origin station
\* stands in for the flight, wherever the flight goes.
find_train_alternative_by_origin(origin0, destination0) ==
    IF \E key \in DOMAIN TRAIN_ROUTES : key[1] = Upper(origin0)
    THEN train_of_route(
             TRAIN_ROUTES[CHOOSE key \in DOMAIN TRAIN_ROUTES : key[1] = Upper(origin0)])
    ELSE [available |-> FALSE]

\* find_train_alternative: the route of (origin, destination), else the
\* route of (destination, origin), else None (available = FALSE here).
find_train_alternative(origin0, destination0) ==
    IF <<Upper(origin0), Upper(destination0)>> \in DOMAIN TRAIN_ROUTES
    THEN train_of_route(TRAIN_ROUTES[<<Upper(origin0), Upper(destination0)>>])
    ELSE IF <<Upper(destination0), Upper(origin0)>> \in DOMAIN TRAIN_ROUTES
    THEN train_of_route(TRAIN_ROUTES[<<Upper(destination0), Upper(origin0)>>])
    ELSE [available |-> FALSE]

\* ------------------------------------------------------- alternatives engine
\* A local variable that a function computes once and reads several times
\* is passed on as a parameter: f(x) == f_of(local(x)), f_of(v) reading v.

\* dict.get(key, default) on a segment.
Get(d, key, default) == IF key \in DOMAIN d THEN d[key] ELSE default

RECURSIVE Sum(_)
Sum(numbers) == IF numbers = <<>> THEN 0 ELSE Head(numbers) + Sum(Tail(numbers))

\* A date string is modelled by its day number; BAD_DATE stands for every
\* text that datetime.strptime(s, "%Y-%m-%d") rejects: a segment that carries
\* BAD_DATE carries a non-empty text that is no date, and a segment without
\* the key gets the "" of seg.get("check_in", ""), which is no date either.
BAD_DATE == -1
ParsesAsDate(date_str) == date_str >= 0

\* Defaults of the hotel fields, and the stay assumed by the handlers that
\* fall back to date.today() .. date.today() + timedelta(days=2).
DEFAULT_STAR_RATING == 4
FALLBACK_NIGHTS == 2

\* n * 10^digits / d rounded as RoundDiv rounds, by long division, so that
\* no intermediate value leaves the range of the integers of the checker.
RECURSIVE LongDivision(_, _, _, _)
LongDivision(q, r, d, digits) ==
    IF digits = 0
    THEN IF 2 * r < d THEN q
         ELSE IF 2 * r > d THEN q + 1
         ELSE IF q % 2 = 0 THEN q ELSE q + 1
    ELSE LongDivision(q * 10 + (r * 10) \div d, (r * 10) % d, d, digits - 1)

RoundScaled(n, d, digits) == LongDivision(n \div d, n % d, d, digits)

\* savings / original * 100 rounded to one decimal, in tenths of a percent;
\* 0 when the original is not positive.
Percentage(savings_kg, original_kg) ==
    IF original_kg > 0 THEN RoundScaled(savings_kg, original_kg, 3) ELSE 0

\* round(savings / original * 100), the whole percent of the labels.
WholePercent(savings_kg, original_kg) ==
    IF original_kg > 0 THEN RoundScaled(savings_kg, original_kg, 2) ELSE 0

\* The "tradeoffs" entry of an alternative.
Tradeoffs(minutes, eur) ==
    [time_difference_minutes |-> minutes, estimated_cost_difference_eur |-> eur]

\* The text of a label: its kg figure (in hundredths like every other kg
\* figure, so round(x, 1) is RoundDiv(x, 10) * 10), its percent, its wording.
Label(kg, percent, text) == [kg |-> kg, percent |-> percent, text |-> text]

IsType(seg, type) == Get(seg, "type", None) = type

\* flight_result.emissions_kg if flight_result else 0.
emissions_or_zero(flight_result) ==
    IF flight_result.found THEN flight_result.emissions_kg ELSE 0

\* A loop body that forgets the flights it keeps: a flight without a train
\* adds nothing to total_new_emissions.
train_alternative_flight_dropping_kept(i, flight_kg, train_alt) ==
    IF train_alt.available
    THEN [original |-> flight_kg, new |-> train_alt.emissions_kg,
          replaced |-> TRUE,
          entry |-> [type |-> "train", original_segment_index |-> i,
                     emissions_kg |-> train_alt.emissions_kg]]
    ELSE [original |-> flight_kg, new |-> 0,
          replaced |-> FALSE,
          entry |-> [type |-> "flight", original_segment_index |-> i,
                     emissions_kg |-> flight_kg]]

\* What one flight adds in the loop of _generate_train_alternative, given
\* its flight emissions and the result of find_train_alternative: to
\* total_original_emissions, to total_new_emissions, to has_train_replacement
\* and to modified_segments.
train_alternative_flight(i, flight_kg, train_alt) ==
    IF train_alt.available
    THEN [original |-> flight_kg, new |-> train_alt.emissions_kg,
          replaced |-> TRUE,
          entry |-> [type |-> "train", original_segment_index |-> i,
                     emissions_kg |-> train_alt.emissions_kg]]
    ELSE [original |-> flight_kg, new |-> flight_kg,
          replaced |-> FALSE,
          entry |-> [type |-> "flight", original_segment_index |-> i,
                     emissions_kg |-> flight_kg]]

\* One pass of the loop of _generate_train_alternative over segment i
\* (0-based).
train_alternative_step(seg, i) ==
    IF IsType(seg, "flight")
    THEN train_alternative_flight(
             i,
             emissions_or_zero(
                 calculate_flight_emissions(Get(seg, "origin", ""),
                                            Get(seg, "destination", ""),
                                            Get(seg, "cabin_class", "economy"))),
             find_train_alternative(Get(seg, "origin", ""), Get(seg, "destination", "")))
    ELSE [original |-> 0, new |-> 0, replaced |-> FALSE,
          entry |-> [type |-> Get(seg, "type", None), original_segment_index |-> i,
                     emissions_kg |-> 0]]

\* The dictionary _generate_train_alternative returns.
train_alternative_record(total_original_emissions, total_new_emissions, modified_segments) ==
    [alternative_id |-> "alt_train",
     total_emissions |-> [co2e_kg |-> total_new_emissions],
     savings |->
         [absolute_kg |-> total_original_emissions - total_new_emissions,
          percentage |-> Percentage(total_original_emissions - total_new_emissions,
                                    total_original_emissions),
          label |-> Label(RoundDiv(total_original_emissions - total_new_emissions, 10) * 10,
                          WholePercent(total_original_emissions - total_new_emissions,
                                       total_original_emissions),
                          "reduction")],
     segments |-> modified_segments,
     tradeoffs |-> Tradeoffs(60, 0 - 30)]

\* _generate_train_alternative after its loop: <<>> for None, else the one
\* alternative.
train_alternative_of(flight_segments, steps) ==
    IF flight_segments = <<>> \/ ~(\E i \in 1..Len(steps) : steps[i].replaced)
    THEN <<>>
    ELSE <<train_alternative_record(
               Sum([i \in 1..Len(steps) |-> steps[i].original]),
               Sum([i \in 1..Len(steps) |-> steps[i].new]),
               [i \in 1..Len(steps) |-> steps[i].entry])>>

generate_train_alternative(segments, flight_segments) ==
    train_alternative_of(
        flight_segments,
        [i \in 1..Len(segments) |-> train_alternative_step(segments[i], i - 1)])

\* What one hotel adds in the loop of _generate_eco_hotel_alternative, given
\* its emissions as it is and eco-certified.
eco_hotel_alternative_hotel(i, original_kg, eco_kg) ==
    [original |-> original_kg, new |-> eco_kg, savings |-> original_kg - eco_kg,
     entry |-> [type |-> "hotel", original_segment_index |-> i,
                emissions_kg |-> eco_kg]]

\* The stay priced with the rooms, persons, breakfast and certification the
\* segment itself carries.
engine_hotel_emissions_of_own_fields(seg, sustainability_certified) ==
    LET parsed == ParsesAsDate(Get(seg, "check_in", BAD_DATE))
                  /\ ParsesAsDate(Get(seg, "check_out", BAD_DATE))
    IN  calculate_hotel_emissions(
            Get(Get(seg, "location", [city |-> "Same location"]), "country_code", "GB"),
            IF parsed THEN seg.check_in ELSE 0,
            IF parsed THEN seg.check_out ELSE FALLBACK_NIGHTS,
            Get(seg, "star_rating", DEFAULT_STAR_RATING),
            Get(seg, "room_count", 1), Get(seg, "persons", 1),
            sustainability_certified \/ Get(seg, "sustainability_certified", FALSE),
            Get(seg, "breakfast", "none"))

\* The stay of a hotel segment for the engine: one room of the segment's
\* country and star rating over its dates, or over the fallback dates when
\* either date does not parse.
engine_hotel_emissions(seg, sustainability_certified) ==
    LET parsed == ParsesAsDate(Get(seg, "check_in", BAD_DATE))
                  /\ ParsesAsDate(Get(seg, "check_out", BAD_DATE))
    IN  calculate_hotel_emissions(
            Get(Get(seg, "location", [city |-> "Same location"]), "country_code", "GB"),
            IF parsed THEN seg.check_in ELSE 0,
            IF parsed THEN seg.check_out ELSE FALLBACK_NIGHTS,
            Get(seg, "star_rating", DEFAULT_STAR_RATING),
            1, 1, sustainability_certified, "none")

\* One pass of the loop of _generate_eco_hotel_alternative over segment i.
eco_hotel_alternative_step(seg, i) ==
    IF IsType(seg, "hotel")
    THEN eco_hotel_alternative_hotel(i,
                                     engine_hotel_emissions(seg, FALSE).emissions_kg,
                                     engine_hotel_emissions(seg, TRUE).emissions_kg)
    ELSE [original |-> 0, new |-> 0, savings |-> 0,
          entry |-> [type |-> Get(seg, "type", None), original_segment_index |-> i,
                     emissions_kg |-> 0]]

\* The dictionary _generate_eco_hotel_alternative returns.
eco_hotel_alternative_record(total_savings_kg, original_hotel_emissions, new_hotel_emissions, modified_segments) ==
    [alternative_id |-> "alt_eco_hotel",
     total_emissions |-> [co2e_kg |-> new_hotel_emissions],
     savings |->
         [absolute_kg |-> total_savings_kg,
          percentage |-> Percentage(total_savings_kg, original_hotel_emissions),
          label |-> Label(RoundDiv(total_savings_kg, 10) * 10,
                          WholePercent(total_savings_kg, original_hotel_emissions),
                          "reduction on hotels")],
     segments |-> modified_segments,
     tradeoffs |-> Tradeoffs(0, 0 - 20)]

\* A loop exit that tests nothing but a negative saving: no look at
\* hotel_segments, and a saving of 0 is let through.
eco_hotel_alternative_unless_negative(hotel_segments, steps) ==
    IF Sum([i \in 1..Len(steps) |-> steps[i].savings]) < 0
    THEN <<>>
    ELSE <<eco_hotel_alternative_record(
               Sum([i \in 1..Len(steps) |-> steps[i].savings]),
               Sum([i \in 1..Len(steps) |-> steps[i].original]),
               Sum([i \in 1..Len(steps) |-> steps[i].new]),
               [i \in 1..Len(steps) |-> steps[i].entry])>>

\* _generate_eco_hotel_alternative after its loop: <<>> for None, else the
\* one alternative.
eco_hotel_alternative_of(hotel_segments, steps) ==
    IF hotel_segments = <<>> \/ Sum([i \in 1..Len(steps) |-> steps[i].savings]) <= 0
    THEN <<>>
    ELSE <<eco_hotel_alternative_record(
               Sum([i \in 1..Len(steps) |-> steps[i].savings]),
               Sum([i \in 1..Len(steps) |-> steps[i].original]),
               Sum([i \in 1..Len(steps) |-> steps[i].new]),
               [i \in 1..Len(steps) |-> steps[i].entry])>>

generate_eco_hotel_alternative(segments, hotel_segments) ==
    eco_hotel_alternative_of(
        hotel_segments,
        [i \in 1..Len(segments) |-> eco_hotel_alternative_step(segments[i], i - 1)])

\* A combination that recomputes its percentage from the two alternatives
\* instead of leaving 0 for the caller.
combined_alternative_with_percentage(train_alt, eco_alt) ==
    IF train_alt = <<>> \/ eco_alt = <<>>
    THEN <<>>
    ELSE <<[alternative_id |-> "alt_combined",
            total_emissions |->
                [co2e_kg |-> train_alt[1].total_emissions.co2e_kg
                             + eco_alt[1].total_emissions.co2e_kg],
            savings |->
                [absolute_kg |-> train_alt[1].savings.absolute_kg
                                 + eco_alt[1].savings.absolute_kg,
                 percentage |-> train_alt[1].savings.percentage,
                 label |-> Label(RoundDiv(train_alt[1].savings.absolute_kg
                                          + eco_alt[1].savings.absolute_kg, 10) * 10,
                                 0, "combined improvements")],
            segments |-> train_alt[1].segments,
            tradeoffs |-> Tradeoffs(60, 0 - 50)]>>

\* The dictionary _generate_combined_alternative returns: the totals and the
\* absolute savings of the two alternatives added, the percentage left at 0.
combined_alternative_of(train_alt, eco_alt) ==
    IF train_alt = <<>> \/ eco_alt = <<>>
    THEN <<>>
    ELSE <<[alternative_id |-> "alt_combined",
            total_emissions |->
                [co2e_kg |-> train_alt[1].total_emissions.co2e_kg
                             + eco_alt[1].total_emissions.co2e_kg],
            savings |->
                [absolute_kg |-> train_alt[1].savings.absolute_kg
                                 + eco_alt[1].savings.absolute_kg,
                 percentage |-> 0,
                 label |-> Label(RoundDiv(train_alt[1].savings.absolute_kg
                                          + eco_alt[1].savings.absolute_kg, 10) * 10,
                                 0, "combined improvements")],
            segments |-> train_alt[1].segments,
            tradeoffs |-> Tradeoffs(60, 0 - 50)]>>

\* _generate_combined_alternative generates both alternatives again.
generate_combined_alternative(segments, flight_segments, hotel_segments) ==
    combined_alternative_of(generate_train_alternative(segments, flight_segments),
                            generate_eco_hotel_alternative(segments, hotel_segments))

\* An unstable placement: an alternative goes ahead of the alternatives
\* already placed whose percentage is equal.
RECURSIVE InsertAheadOfEqual(_, _)
InsertAheadOfEqual(alt, sorted) ==
    IF sorted = <<>> THEN <<alt>>
    ELSE IF Head(sorted).savings.percentage > alt.savings.percentage
         THEN <<Head(sorted)>> \o InsertAheadOfEqual(alt, Tail(sorted))
         ELSE <<alt>> \o sorted

\* list.sort(key=percentage, reverse=True): stable, so an alternative goes
\* behind every alternative already placed whose percentage is not smaller.
RECURSIVE InsertByPercentage(_, _)
InsertByPercentage(alt, sorted) ==
    IF sorted = <<>> THEN <<alt>>
    ELSE IF Head(sorted).savings.percentage >= alt.savings.percentage
         THEN <<Head(sorted)>> \o InsertByPercentage(alt, Tail(sorted))
         ELSE <<alt>> \o sorted

RECURSIVE SortByPercentage(_, _)
SortByPercentage(alternatives, sorted) ==
    IF alternatives = <<>> THEN sorted
    ELSE SortByPercentage(Tail(alternatives),
                          InsertByPercentage(Head(alternatives), sorted))

\* alternatives[:n] of Python: the first n, or all but the last -n.
Slice(alternatives, n) ==
    IF n >= 0
    THEN SubSeq(alternatives, 1, Min(n, Len(alternatives)))
    ELSE SubSeq(alternatives, 1, Max(0, Len(alternatives) + n))

\* The three strategies of generate_alternatives, in the order they append.
collect_alternatives(segments, flight_segments, hotel_segments, train_alternative, eco_hotel_alternative) ==
    train_alternative
    \o eco_hotel_alternative
    \o (IF train_alternative # <<>> /\ eco_hotel_alternative # <<>>
        THEN generate_combined_alternative(segments, flight_segments, hotel_segments)
        ELSE <<>>)

strategies(segments, flight_segments, hotel_segments) ==
    collect_alternatives(segments, flight_segments, hotel_segments,
                         generate_train_alternative(segments, flight_segments),
                         generate_eco_hotel_alternative(segments, hotel_segments))

\* The list generate_alternatives has built when it reaches its sort.
built_alternatives(segments) ==
    strategies(segments,
               SelectSeq(segments, LAMBDA seg : IsType(seg, "flight")),
               SelectSeq(segments, LAMBDA seg : IsType(seg, "hotel")))

generate_alternatives(segments, max_alternatives) ==
    Slice(SortByPercentage(built_alternatives(segments), <<>>), max_alternatives)

\* ---------------------------------------------------------- ground transport
\* CAR_FACTORS_PER_KM: kg CO2e per km, in thousandths.
CAR_FACTORS_PER_KM ==
    [taxi |-> 149, uber_x |-> 121, uber_xl |-> 180, uber_black |-> 195,
     private_car_petrol |-> 170, private_car_diesel |-> 163,
     private_car_hybrid |-> 106, electric_car |-> 53, electric_uber |-> 48,
     bus |-> 89, coach |-> 27, metro |-> 29, tram |-> 32]

\* AIRPORT_TRANSFER_DISTANCES: one-way km.
AIRPORT_TRANSFER_DISTANCES ==
    [LHR |-> 25, LGW |-> 45, CDG |-> 32, ORY |-> 18, FRA |-> 14, MUC |-> 38,
     AMS |-> 20, FCO |-> 32, MXP |-> 50, BCN |-> 18, MAD |-> 17, DUB |-> 12,
     DXB |-> 15, DOH |-> 22, SIN |-> 22, HKG |-> 35, NRT |-> 70, HND |-> 20,
     BKK |-> 30, JFK |-> 26, EWR |-> 28, LAX |-> 27, SFO |-> 21, ORD |-> 27]

DEFAULT_AIRPORT_DISTANCE_KM == 25

\* A vehicle factor lookup that falls back on the cheapest ride.
get_car_emission_factor_default_uber_x(vehicle_type) ==
    IF vehicle_type \in DOMAIN CAR_FACTORS_PER_KM
    THEN CAR_FACTORS_PER_KM[vehicle_type]
    ELSE CAR_FACTORS_PER_KM["uber_x"]

get_car_emission_factor(vehicle_type) ==
    IF vehicle_type \in DOMAIN CAR_FACTORS_PER_KM
    THEN CAR_FACTORS_PER_KM[vehicle_type]
    ELSE CAR_FACTORS_PER_KM["taxi"]

\* round(distance * factor, 2), in hundredths of a kg. Python rounds the
\* binary double of the product: a product that is an exact tie in decimal
\* (thousandths ending in 5) goes up for the (distance, factor) pairs of
\* TIES_ROUNDED_UP and down for the others, among the one-way distances of
\* the table and the city distances 5 and 15.
TIES_ROUNDED_UP ==
    {<<5, 27>>, <<5, 29>>, <<5, 53>>, <<5, 163>>, <<5, 195>>, <<15, 163>>,
     <<15, 195>>, <<25, 27>>, <<25, 29>>, <<25, 89>>, <<25, 163>>, <<25, 195>>,
     <<27, 195>>, <<35, 29>>, <<35, 163>>, <<35, 195>>, <<45, 27>>, <<45, 29>>,
     <<45, 121>>, <<45, 149>>, <<45, 195>>}

transport_emissions_kg(distance, factor) ==
    IF (distance * factor) % 10 = 5
    THEN IF <<distance, factor>> \in TIES_ROUNDED_UP
         THEN (distance * factor) \div 10 + 1
         ELSE (distance * factor) \div 10
    ELSE RoundDiv(distance * factor, 10)

calculate_transfer_emissions(airport_code, vehicle_type, is_round_trip) ==
    LET one_way == IF Upper(airport_code) \in DOMAIN AIRPORT_TRANSFER_DISTANCES
                   THEN AIRPORT_TRANSFER_DISTANCES[Upper(airport_code)]
                   ELSE DEFAULT_AIRPORT_DISTANCE_KM
        distance == IF is_round_trip THEN one_way * 2 ELSE one_way
        factor == get_car_emission_factor(vehicle_type)
    IN  [emissions_kg |-> transport_emissions_kg(distance, factor),
         distance_km |-> distance,
         vehicle_type |-> vehicle_type,
         factor_per_km |-> factor]

calculate_city_transport_emissions(distance_km, vehicle_type) ==
    LET factor == get_car_emission_factor(vehicle_type)
    IN  [emissions_kg |-> transport_emissions_kg(distance_km, factor),
         distance_km |-> distance_km,
         vehicle_type |-> vehicle_type,
         factor_per_km |-> factor]

\* -------------------------------------------------------------- POST /assess
SEGMENT_TYPES == {"flight", "hotel", "transfer", "taxi", "transport"}
MAX_SEGMENTS_PER_REQUEST == 50
DEFAULT_ALTERNATIVE_COUNT == 3
DEFAULT_CITY_DISTANCE_KM == 10

\* Python truth of seg.get(key) for the text fields: present and not empty.
Truthy(seg, key) == key \in DOMAIN seg /\ seg[key] # ""

\* A JSON value where an object is expected (a segment, an itinerary of a
\* batch): an object is the record of its keys; any other value (null, a
\* string, a number, an array) is the record of its json_type alone, and has
\* no get method.
IsObject(value) == "json_type" \notin DOMAIN value

\* The checks validate_request makes of one segment.
segment_is_valid(seg) ==
    /\ Get(seg, "type", None) \in SEGMENT_TYPES
    /\ seg.type = "flight" =>
          /\ Truthy(seg, "origin")
          /\ Truthy(seg, "destination")
          /\ "departure_date" \in DOMAIN seg
    /\ seg.type = "hotel" =>
          /\ "location" \in DOMAIN seg
          /\ Truthy(seg.location, "country_code")
          /\ "check_in" \in DOMAIN seg
          /\ "check_out" \in DOMAIN seg

\* validate_request raises AttributeError: its loop reaches a segment that
\* is not an object (seg.get at line 40) before it has returned for an
\* earlier segment.
validate_request_raises(data) ==
    /\ "segments" \in DOMAIN data
    /\ Len(data.segments) <= MAX_SEGMENTS_PER_REQUEST
    /\ \E i \in 1..Len(data.segments) :
          /\ ~IsObject(data.segments[i])
          /\ \A j \in 1..(i - 1) : segment_is_valid(data.segments[j])

\* validate_request: TRUE when the request passes.
validate_request(data) ==
    /\ "segments" \in DOMAIN data
    /\ data.segments # <<>>
    /\ Len(data.segments) <= MAX_SEGMENTS_PER_REQUEST
    /\ \A i \in 1..Len(data.segments) :
          IsObject(data.segments[i]) /\ segment_is_valid(data.segments[i])

\* What process_flight_segment makes of the calculator's result: it raises
\* ValueError (raised = TRUE) when the result is None.
flight_segment_result(index, result) ==
    IF ~result.found
    THEN [raised |-> TRUE, type |-> "flight"]
    ELSE [raised |-> FALSE,
          segment_index |-> index,
          type |-> "flight",
          emissions_kg |-> result.emissions_kg,
          haul_type |-> result.haul_type,
          confidence_factors |-> result.confidence_factors]

process_flight_segment(seg, index) ==
    flight_segment_result(
        index,
        calculate_flight_emissions(Upper(Get(seg, "origin", "")),
                                   Upper(Get(seg, "destination", "")),
                                   Get(seg, "cabin_class", "economy")))

\* What process_hotel_segment makes of the calculator's result.
\* _grid_quality is taken from the "source" entry of grid_carbon_intensity.
hotel_segment_result(index, result) ==
    [raised |-> FALSE,
     segment_index |-> index,
     type |-> "hotel",
     emissions_kg |-> result.emissions_kg,
     confidence_factors |-> result.confidence_factors,
     grid_quality |-> LowerSource(result.grid_carbon_intensity.source)]

\* process_hotel_segment: raises ValueError when a date does not parse.
process_hotel_segment(seg, index, traveler_count) ==
    IF ~(ParsesAsDate(Get(seg, "check_in", BAD_DATE))
         /\ ParsesAsDate(Get(seg, "check_out", BAD_DATE)))
    THEN [raised |-> TRUE, type |-> "hotel"]
    ELSE hotel_segment_result(
             index,
             calculate_hotel_emissions(
                 Upper(Get(Get(seg, "location", [city |-> ""]), "country_code", "GB")),
                 seg.check_in, seg.check_out,
                 Get(seg, "star_rating", DEFAULT_STAR_RATING),
                 Get(seg, "room_count", 1),
                 Get(seg, "persons", traveler_count),
                 Get(seg, "sustainability_certified", FALSE),
                 Get(seg, "breakfast", "none")))

GROUND_TRANSPORT_FACTOR == <<Factor("ground_transport", "transport")>>

\* process_transport_segment: an airport transfer, multiplied by the number
\* of travelers unless shared, or a city ride by distance.
process_transport_segment(seg, index, traveler_count) ==
    IF Get(seg, "type", "taxi") = "transfer"
    THEN [raised |-> FALSE,
          segment_index |-> index,
          type |-> "transfer",
          emissions_kg |->
              calculate_transfer_emissions(Get(seg, "airport", ""),
                                           Get(seg, "vehicle_type", "uber_x"),
                                           Get(seg, "round_trip", TRUE)).emissions_kg
              * (IF Get(seg, "shared", FALSE) THEN 1 ELSE traveler_count),
          confidence_factors |-> GROUND_TRANSPORT_FACTOR]
    ELSE [raised |-> FALSE,
          segment_index |-> index,
          type |-> "transport",
          emissions_kg |->
              calculate_city_transport_emissions(
                  Get(seg, "distance_km", DEFAULT_CITY_DISTANCE_KM),
                  Get(seg, "vehicle_type", "uber_x")).emissions_kg,
          confidence_factors |-> GROUND_TRANSPORT_FACTOR]

\* A flight's result left as the calculator gave it, for one traveler.
times_one_traveler(result, traveler_count) == result

\* A flight's result with its emissions multiplied by traveler_count.
times_travelers(result, traveler_count) ==
    IF result.raised THEN result
    ELSE [result EXCEPT !.emissions_kg = @ * traveler_count]

\* One pass of the loop of process_assessment.
process_segment(seg, index, traveler_count) ==
    IF seg.type = "flight"
    THEN times_travelers(process_flight_segment(seg, index), traveler_count)
    ELSE IF seg.type = "hotel"
    THEN process_hotel_segment(seg, index, traveler_count)
    ELSE process_transport_segment(seg, index, traveler_count)

\* The results of the loop of process_assessment, one per segment.
segment_results(data) ==
    [i \in 1..Len(data.segments) |->
        process_segment(data.segments[i], i - 1, Get(data, "traveler_count", 1))]

\* The grid_data_quality the loop of process_assessment ends with: "measured"
\* once a hotel reported it, else "estimated" once a hotel reported it, else
\* "default".
tracked_grid_quality(results) ==
    IF \E i \in 1..Len(results) :
          results[i].type = "hotel" /\ results[i].grid_quality = "measured"
    THEN "measured"
    ELSE IF \E i \in 1..Len(results) :
               results[i].type = "hotel" /\ results[i].grid_quality = "estimated"
    THEN "estimated"
    ELSE "default"

RECURSIVE Concat(_)
Concat(lists) == IF lists = <<>> THEN <<>> ELSE Head(lists) \o Concat(Tail(lists))

\* n / d rounded as round(n / d, 2) is on hundredths, for d of either sign.
RoundQuotient(n, d) == IF d > 0 THEN RoundDiv(n, d) ELSE RoundDiv(0 - n, 0 - d)

\* The emissions of the results of the given types, added.
total_of(results, types) ==
    Sum([i \in 1..Len(results) |->
            IF results[i].type \in types THEN results[i].emissions_kg ELSE 0])

\* The haul type of the last flight: haul_types[-1].
primary_haul_of_last_flight(flights) ==
    IF flights # <<>> THEN flights[Len(flights)].haul_type ELSE None

\* haul_types[0] if haul_types else None.
primary_haul_of(flights) == IF flights # <<>> THEN flights[1].haul_type ELSE None

\* The pass of process_assessment over the alternatives it returns: the
\* percentage and the label are rewritten when absolute_kg is not 0.
finalize_for_assessment(alt, total_emissions_kg) ==
    IF alt.savings.absolute_kg # 0
    THEN [alt EXCEPT
            !.savings.percentage = Percentage(alt.savings.absolute_kg, total_emissions_kg),
            !.savings.label = Label(alt.savings.absolute_kg,
                                    WholePercent(alt.savings.absolute_kg,
                                                 total_emissions_kg),
                                    "reduction")]
    ELSE alt

\* A pass that sorts the alternatives again by the percentages it wrote.
finalized_and_sorted_for_assessment(alternatives, total_emissions_kg) ==
    SortByPercentage(
        [i \in 1..Len(alternatives) |->
            finalize_for_assessment(alternatives[i], total_emissions_kg)],
        <<>>)

finalized_for_assessment(alternatives, total_emissions_kg) ==
    [i \in 1..Len(alternatives) |->
        finalize_for_assessment(alternatives[i], total_emissions_kg)]

\* The alternatives of the response: none unless options.include_alternatives.
assessment_alternatives(data, total_emissions_kg) ==
    IF Get(Get(data, "options", [include_methodology |-> FALSE]),
           "include_alternatives", FALSE)
    THEN finalized_for_assessment(
             generate_alternatives(
                 data.segments,
                 Get(data.options, "alternative_count", DEFAULT_ALTERNATIVE_COUNT)),
             total_emissions_kg)
    ELSE <<>>

\* The confidence score process_assessment asks for.
assessment_confidence(data, results) ==
    calculate_confidence_score(
        Concat([i \in 1..Len(results) |-> results[i].confidence_factors]),
        \E i \in 1..Len(data.segments) :
            IsType(data.segments[i], "flight") /\ Truthy(data.segments[i], "carrier_code"),
        FALSE, FALSE,
        tracked_grid_quality(results),
        primary_haul_of(SelectSeq(results, LAMBDA r : r.type = "flight")))

\* process_assessment after its loop.  status 422 stands for the ValueError
\* a segment raised, 500 for the ZeroDivisionError of total / traveler_count.
\* The "lower_impact_alternatives" key, left out of the response when there
\* is no alternative, is the empty list here.
\* The message of the 500 response; that of the 422 response is the text
\* of the exception, str(e).
GENERIC_MESSAGE == "An error occurred processing your request"

assessment_response(data, results) ==
    IF \E i \in 1..Len(results) : results[i].raised
    THEN [status |-> 422, code |-> "PROCESSING_ERROR", message |-> "str(e)"]
    ELSE IF Get(data, "traveler_count", 1) = 0
    THEN [status |-> 500, code |-> "INTERNAL_ERROR", message |-> GENERIC_MESSAGE]
    ELSE [status |-> 200,
          total_emissions |->
              [co2e_kg |-> total_of(results, {"flight", "hotel", "transfer", "transport"}),
               breakdown |-> [flights_kg |-> total_of(results, {"flight"}),
                              hotels_kg |-> total_of(results, {"hotel"}),
                              transport_kg |-> total_of(results, {"transfer", "transport"})],
               per_traveler_kg |->
                   RoundQuotient(
                       total_of(results, {"flight", "hotel", "transfer", "transport"}),
                       Get(data, "traveler_count", 1))],
          confidence_score |-> assessment_confidence(data, results),
          segments |-> [i \in 1..Len(results) |->
                           [segment_index |-> results[i].segment_index,
                            type |-> results[i].type,
                            emissions_kg |-> results[i].emissions_kg]],
          lower_impact_alternatives |->
              assessment_alternatives(
                  data,
                  total_of(results, {"flight", "hotel", "transfer", "transport"}))]

process_assessment(data) == assessment_response(data, segment_results(data))

\* The local variables of process_assessment when it returns.
assessment_locals(results) ==
    IF \E i \in 1..Len(results) : results[i].raised
    THEN [handler |-> "process_assessment"]
    ELSE [handler |-> "process_assessment",
          grid_data_quality |-> tracked_grid_quality(results)]

\* POST /v1/assess. validate_request is called outside the try block: when
\* it raises, the exception leaves the handler and the framework answers
\* 500 with a body of its own.
assess_itinerary(data) ==
    IF validate_request_raises(data)
    THEN [status |-> 500, code |-> "UNHANDLED_EXCEPTION"]
    ELSE IF ~validate_request(data)
    THEN [status |-> 400, code |-> "VALIDATION_ERROR", message |-> "error_msg"]
    ELSE process_assessment(data)

\* --------------------------------------------------------- POST /assess/batch
MAX_BATCH_ITINERARIES == 100

\* One pass of the loop of batch_assess over an object: the entry appended
\* to results. Every exception of validate_request and process_assessment
\* is caught here, the division by a traveler_count of 0 included.
batch_entry_of(itin, valid, assessment) ==
    IF ~valid
    THEN [trip_id |-> Get(itin, "trip_id", None), status |-> "error",
          error |-> [code |-> "VALIDATION_ERROR"]]
    ELSE IF assessment.status = 200
    THEN [trip_id |-> Get(itin, "trip_id", None), status |-> "success",
          assessment |-> assessment]
    ELSE [trip_id |-> Get(itin, "trip_id", None), status |-> "error",
          error |-> [code |-> "PROCESSING_ERROR"]]

batch_entry(itin) ==
    batch_entry_of(itin, validate_request(itin) \/ validate_request_raises(itin), assess_itinerary(itin))

\* total_emissions as the loop adds it up over the successful entries.
batch_total_emissions(results) ==
    Sum([i \in 1..Len(results) |->
            IF results[i].status = "success"
            THEN results[i].assessment.total_emissions.co2e_kg
            ELSE 0])

batch_count(results, status) ==
    Cardinality({i \in 1..Len(results) : results[i].status = status})

batch_response(data, results) ==
    [status |-> 200,
     batch_id |-> Get(data, "batch_id", None),
     total_itineraries |-> Len(data.itineraries),
     successful |-> batch_count(results, "success"),
     failed |-> batch_count(results, "error"),
     results |-> results,
     aggregate |->
         [total_emissions_kg |-> batch_total_emissions(results),
          average_per_trip_kg |->
              IF batch_count(results, "success") > 0
              THEN RoundQuotient(batch_total_emissions(results),
                                 batch_count(results, "success"))
              ELSE 0]]

\* The endpoint as it would be if the loop ran ahead of the size check.
batch_assess_looping_first(data) ==
    IF Get(data, "itineraries", <<>>) = <<>>
    THEN [status |-> 400, code |-> "VALIDATION_ERROR"]
    ELSE IF \E i \in 1..Len(data.itineraries) : ~IsObject(data.itineraries[i])
    THEN [status |-> 500, code |-> "UNHANDLED_EXCEPTION"]
    ELSE IF Len(data.itineraries) > MAX_BATCH_ITINERARIES
    THEN [status |-> 400, code |-> "VALIDATION_ERROR"]
    ELSE batch_response(
             data,
             [i \in 1..Len(data.itineraries) |-> batch_entry(data.itineraries[i])])

\* POST /v1/assess/batch. For an element that is not an object, the call
\* itin.get("trip_id") or validate_request's data.get raises AttributeError
\* inside the try block, and the except block calls itin.get("trip_id")
\* again: that second AttributeError leaves the handler, and the framework
\* answers 500 for the whole batch.
batch_assess(data) ==
    IF Get(data, "itineraries", <<>>) = <<>>
    THEN [status |-> 400, code |-> "VALIDATION_ERROR"]
    ELSE IF Len(data.itineraries) > MAX_BATCH_ITINERARIES
    THEN [status |-> 400, code |-> "VALIDATION_ERROR"]
    ELSE IF \E i \in 1..Len(data.itineraries) : ~IsObject(data.itineraries[i])
    THEN [status |-> 500, code |-> "UNHANDLED_EXCEPTION"]
    ELSE batch_response(
             data,
             [i \in 1..Len(data.itineraries) |-> batch_entry(data.itineraries[i])])

\* --------------------------------------------------------- POST /alternatives
DEFAULT_MAX_ALTERNATIVES == 5

\* calculate_original_emissions: flights that resolve and hotels only; a
\* hotel whose dates do not parse is counted for the fallback stay.
original_hotel_emissions(seg) ==
    LET parsed == ParsesAsDate(Get(seg, "check_in", BAD_DATE))
                  /\ ParsesAsDate(Get(seg, "check_out", BAD_DATE))
    IN  calculate_hotel_emissions(
            Get(Get(seg, "location", [city |-> ""]), "country_code", "GB"),
            IF parsed THEN seg.check_in ELSE 0,
            IF parsed THEN seg.check_out ELSE FALLBACK_NIGHTS,
            Get(seg, "star_rating", DEFAULT_STAR_RATING),
            Get(seg, "room_count", 1),
            1,
            Get(seg, "sustainability_certified", FALSE),
            "none")

original_emissions_step(seg) ==
    IF IsType(seg, "flight")
    THEN [flights |-> emissions_or_zero(
                          calculate_flight_emissions(Upper(Get(seg, "origin", "")),
                                                     Upper(Get(seg, "destination", "")),
                                                     Get(seg, "cabin_class", "economy"))),
          hotels |-> 0]
    ELSE IF IsType(seg, "hotel")
    THEN [flights |-> 0, hotels |-> original_hotel_emissions(seg).emissions_kg]
    ELSE [flights |-> 0, hotels |-> 0]

original_emissions_of(steps) ==
    [co2e_kg |-> Sum([i \in 1..Len(steps) |-> steps[i].flights])
                 + Sum([i \in 1..Len(steps) |-> steps[i].hotels]),
     breakdown |-> [flights_kg |-> Sum([i \in 1..Len(steps) |-> steps[i].flights]),
                    hotels_kg |-> Sum([i \in 1..Len(steps) |-> steps[i].hotels])]]

calculate_original_emissions(segments) ==
    original_emissions_of(
        [i \in 1..Len(segments) |-> original_emissions_step(segments[i])])

\* The pass of find_alternatives over the alternatives: every alternative's
\* percentage and label are rewritten against the original emissions.
finalize_for_alternatives(alt, original_kg) ==
    [alt EXCEPT
        !.savings.percentage = Percentage(alt.savings.absolute_kg, original_kg),
        !.savings.label = Label(alt.savings.absolute_kg,
                                WholePercent(alt.savings.absolute_kg, original_kg),
                                "reduction")]

\* list.sort(key=...): ascending and stable, on (key, alternative) pairs.
RECURSIVE InsertByKey(_, _)
InsertByKey(entry, sorted) ==
    IF sorted = <<>> THEN <<entry>>
    ELSE IF Head(sorted).key <= entry.key
         THEN <<Head(sorted)>> \o InsertByKey(entry, Tail(sorted))
         ELSE <<entry>> \o sorted

RECURSIVE SortByKey(_, _)
SortByKey(entries, sorted) ==
    IF entries = <<>> THEN sorted
    ELSE SortByKey(Tail(entries), InsertByKey(Head(entries), sorted))

\* The key find_alternatives sorts on for a ranking preference.
ranking_key(alt, ranking) ==
    IF ranking = "emissions" THEN alt.total_emissions.co2e_kg
    ELSE IF ranking = "time" THEN alt.tradeoffs.time_difference_minutes
    ELSE alt.tradeoffs.estimated_cost_difference_eur

alternatives_of_entries(sorted) == [i \in 1..Len(sorted) |-> sorted[i].alt]

\* The ranking of find_alternatives: by total emissions, by time difference,
\* by cost difference, or ("balanced", or any other word) left as it is.
rank_alternatives(alternatives, ranking) ==
    IF ranking \in {"emissions", "time", "cost"}
    THEN alternatives_of_entries(
             SortByKey([i \in 1..Len(alternatives) |->
                           [key |-> ranking_key(alternatives[i], ranking),
                            alt |-> alternatives[i]]],
                       <<>>))
    ELSE alternatives

\* The 200 response of find_alternatives, given the original emissions and
\* the engine's alternatives.
alternatives_response(original_emissions, alternatives, ranking) ==
    [status |-> 200,
     original_emissions |-> original_emissions,
     alternatives |->
         rank_alternatives(
             [i \in 1..Len(alternatives) |->
                 finalize_for_alternatives(alternatives[i], original_emissions.co2e_kg)],
             ranking)]

\* POST /v1/alternatives.
find_alternatives(data) ==
    IF Get(data, "segments", <<>>) = <<>>
    THEN [status |-> 400, code |-> "VALIDATION_ERROR"]
    ELSE alternatives_response(
             calculate_original_emissions(data.segments),
             generate_alternatives(
                 data.segments,
                 Get(Get(data, "constraints", [max_stops |-> 0]),
                     "max_alternatives", DEFAULT_MAX_ALTERNATIVES)),
             Get(data, "ranking_preference", "emissions"))

\* ------------------------------------------------------------------- inputs
\* Segment dictionaries as a client writes them.
Flight(origin, destination, cabin_class) ==
    [type |-> "flight", origin |-> origin, destination |-> destination,
     cabin_class |-> cabin_class, departure_date |-> 10]

Hotel(country_code, check_in, check_out, star_rating) ==
    [type |-> "hotel", location |-> [city |-> "City", country_code |-> country_code],
     check_in |-> check_in, check_out |-> check_out, star_rating |-> star_rating]

\* The segments itineraries are drawn from: flights on the train table
\* (forward, and reversed in lower case), off the table (medium and long
\* haul; LGW-CDG in first with MAD-IST in economy saves 35.0 % by train, as
\* much as an eco-certified hotel saves), to an unknown airport; hotels in
\* a measured, an estimated and an unknown country, with and without the
\* optional fields, with a date that does not parse, with no room; ground
\* transport.
FlightSegments ==
    {[type |-> "flight", origin |-> "LHR", destination |-> "CDG",
      cabin_class |-> "economy", departure_date |-> 10, carrier_code |-> "BA"],
     Flight("cdg", "lhr", "business"),
     Flight("LGW", "CDG", "first"),
     Flight("MAD", "IST", "economy"),
     [type |-> "flight", origin |-> "LHR", destination |-> "JFK", departure_date |-> 10],
     Flight("LHR", "XXX", "economy")}

HotelSegments ==
    {Hotel("GB", 10, 12, 3),
     Hotel("TR", 10, 11, 4),
     Hotel("IS", 10, 11, 1),
     [type |-> "hotel", location |-> [city |-> "City", country_code |-> "ZZ"],
      check_in |-> 10, check_out |-> 11, star_rating |-> 5, room_count |-> 2,
      persons |-> 2, sustainability_certified |-> TRUE, breakfast |-> "buffet"],
     [type |-> "hotel", location |-> [city |-> "City", country_code |-> "FR"],
      check_in |-> 10, check_out |-> BAD_DATE],
     [type |-> "hotel", location |-> [city |-> "City", country_code |-> "GB"],
      check_in |-> 10, check_out |-> 12, star_rating |-> 3, room_count |-> 0]}

TransportSegments ==
    {[type |-> "transfer", airport |-> "LHR", vehicle_type |-> "taxi"],
     [type |-> "transfer", airport |-> "LHR", vehicle_type |-> "taxi",
      shared |-> TRUE],
     [type |-> "taxi", distance_km |-> 12, vehicle_type |-> "electric_car"]}

\* Segments validate_request turns away, and a JSON null in place of a
\* segment.
MalformedSegments ==
    {[type |-> "cruise"],
     [type |-> "flight", origin |-> "LHR", destination |-> "CDG"],
     [type |-> "hotel", location |-> [city |-> "City"], check_in |-> 10, check_out |-> 12],
     [json_type |-> "null"]}

\* The engine reads the type of a ground-transport segment and nothing else
\* of it: one of them is enough for its itineraries.
EngineSegments ==
    FlightSegments \cup HotelSegments
    \cup {[type |-> "transfer", airport |-> "LHR", vehicle_type |-> "taxi"]}
RequestSegments == EngineSegments \cup TransportSegments \cup MalformedSegments

\* Every itinerary of at most n segments of the pool.
Itineraries(pool, n) == UNION {[1..k -> pool] : k \in 0..n}

\* The longest itinerary validate_request accepts: a flight the train
\* replaces, a hotel, and long-haul flights in first class for the rest.
LongItinerary ==
    [i \in 1..MAX_SEGMENTS_PER_REQUEST |->
        IF i = 1 THEN Flight("LHR", "CDG", "economy")
        ELSE IF i = 2 THEN Hotel("GB", 10, 12, 3)
        ELSE Flight("LHR", "JFK", "first")]

Cabins == {"economy", "premium_economy", "business", "first", "BUSINESS", "cargo"}
AirportCodes == AIRPORTS \cup {"lhr", "XXX", ""}
Countries == {"GB", "gb", "FR", "TR", "PL", "ZZ"}
Breakfasts == {"none", "continental", "buffet", "brunch"}
GridQualities == {"measured", "estimated", "default", "unknown"}
HaulTypes == {"short", "medium", "long", "Short", None}
FactorLists ==
    {<<>>,
     <<Factor("haul_type_accuracy", "short")>>,
     <<Factor("default_grid_intensity", "caller"), Factor("hotel_chain_data", "caller")>>,
     <<Factor("measured_grid_data", "grid"), Factor("hotel_benchmark", "hotel"),
       Factor("measured_grid_data", "grid"), Factor("hotel_benchmark", "hotel")>>}
Rankings == {"emissions", "time", "cost", "balanced"}

\* Calculation results handed to aggregate_confidence_factors: with a
\* confidence_factors attribute (empty, or sharing names with one another)
\* and without.
CalculationResults ==
    {[emissions_kg |-> 100, confidence_factors |-> factors] : factors \in FactorLists}
    \cup {[emissions_kg |-> 100]}

\* Distances handed to get_haul_type, in tenths of a km: all within
\* MaxOffset of either threshold, and the shortest and longest of the table.
Distances ==
    {0, 80266}
    \cup {SHORT_HAUL_LIMIT + k : k \in (0 - MaxOffset)..MaxOffset}
    \cup {MEDIUM_HAUL_LIMIT + k : k \in (0 - MaxOffset)..MaxOffset}

\* The elements of a batch: itineraries that assess (one of them with
\* alternatives), one that fails validation, three that fail in
\* process_assessment (unknown airport, unparsable date, no traveler), one
\* whose segment is not an object, and two JSON values that are not objects.
BatchItineraries ==
    {[trip_id |-> "flight", segments |-> <<Flight("LHR", "CDG", "economy")>>],
     [trip_id |-> "stay", segments |-> <<Hotel("GB", 10, 12, 3)>>, traveler_count |-> 2],
     [segments |-> <<Flight("LGW", "CDG", "first"), Hotel("TR", 10, 11, 4)>>,
      options |-> [include_alternatives |-> TRUE]],
     [trip_id |-> "empty", segments |-> <<>>],
     [trip_id |-> "nowhere", segments |-> <<Flight("LHR", "XXX", "economy")>>],
     [trip_id |-> "undated",
      segments |-> <<[type |-> "hotel",
                      location |-> [city |-> "City", country_code |-> "FR"],
                      check_in |-> 10, check_out |-> BAD_DATE]>>],
     [trip_id |-> "nobody", segments |-> <<Flight("LHR", "CDG", "economy")>>,
      traveler_count |-> 0],
     [trip_id |-> "void", segments |-> <<[json_type |-> "null"]>>],
     [json_type |-> "null"],
     [json_type |-> "string"]}

\* The itineraries arrays: every array of at most MaxBatch elements, and one
\* element repeated up to the limit of the endpoint and one past it.
Batches ==
    UNION {[1..k -> BatchItineraries] : k \in 0..MaxBatch}
    \cup {[i \in 1..n |-> itin] :
             n \in {MAX_BATCH_ITINERARIES, MAX_BATCH_ITINERARIES + 1},
             itin \in BatchItineraries}

\* Category names given to the factor lookups: the keys of the tables, keys
\* in another case, and names no table has.
HaulNames == {"short", "medium", "long", "Short", "orbital", ""}
TrainTypes == DOMAIN TRAIN_FACTORS_PER_KM \cup {"Eurostar", "maglev"}
VehicleTypes == DOMAIN CAR_FACTORS_PER_KM \cup {"Taxi", "rocket"}
TransferAirports == DOMAIN AIRPORT_TRANSFER_DISTANCES \cup {"lhr", "XXX", ""}
CityDistances == {0, 5, 10, 12, 15}

\* ------------------------------------------------------------ state machine
\* The tables the concurrent endpoints read, as module load leaves them: the
\* grid table and its default, the stations and the routes of the train
\* service with the reverse routes added (train_service.py 329-336), each
\* reverse route with a reversed copy of the stops.
\* The routes the module's table literal lists, in the order it lists them.
FORWARD_TRAIN_ROUTES ==
    <<[key |-> <<"LHR", "CDG">>,
       data |-> [operator |-> "Eurostar", duration_minutes |-> 137,
                 distance_km |-> 460,
                 stops |-> <<"London St Pancras", "Ebbsfleet Intl",
                             "Lille Europe", "Paris Gare du Nord">>,
                 frequency |-> "18 trains/day", high_speed |-> TRUE,
                 co2_per_passenger_kg |-> 600]],
      [key |-> <<"LHR", "BRU">>,
       data |-> [operator |-> "Eurostar", duration_minutes |-> 120,
                 distance_km |-> 370,
                 stops |-> <<"London St Pancras", "Ebbsfleet Intl",
                             "Bruxelles-Midi">>,
                 frequency |-> "10 trains/day", high_speed |-> TRUE,
                 co2_per_passenger_kg |-> 480]],
      [key |-> <<"CDG", "LYS">>,
       data |-> [operator |-> "TGV", duration_minutes |-> 120,
                 distance_km |-> 470,
                 stops |-> <<"Paris Gare de Lyon", "Lyon Part-Dieu">>,
                 frequency |-> "25 trains/day", high_speed |-> TRUE,
                 co2_per_passenger_kg |-> 240]],
      [key |-> <<"CDG", "BRU">>,
       data |-> [operator |-> "Thalys", duration_minutes |-> 82,
                 distance_km |-> 310,
                 stops |-> <<"Paris Gare du Nord", "Bruxelles-Midi">>,
                 frequency |-> "20 trains/day", high_speed |-> TRUE,
                 co2_per_passenger_kg |-> 320]]>>

Reversed(list) == [i \in 1..Len(list) |-> list[Len(list) + 1 - i]]

\* The reverse routes as they would be with the stops of the forward route.
reverse_routes_keeping_stops(items) ==
    [i \in 1..Len(items) |->
        [key |-> <<items[i].key[2], items[i].key[1]>>, data |-> items[i].data]]

\* _reverse_routes: for each route the route of the swapped key, with the
\* data of the route and a reversed copy of its stops.
reverse_routes(items) ==
    [i \in 1..Len(items) |->
        [key |-> <<items[i].key[2], items[i].key[1]>>,
         data |-> [items[i].data EXCEPT !.stops = Reversed(@)]]]

\* dict.update: the value of a key the dictionary has is replaced where it
\* stands, a new key goes to the end.
RECURSIVE dict_update(_, _)
dict_update(items, updates) ==
    IF updates = <<>> THEN items
    ELSE LET head == Head(updates)
             updated ==
                 IF \E i \in 1..Len(items) : items[i].key = head.key
                 THEN [i \in 1..Len(items) |->
                          IF items[i].key = head.key THEN head ELSE items[i]]
                 ELSE Append(items, head)
         IN  dict_update(updated, Tail(updates))

\* TRAIN_ROUTES.items() after module load, in iteration order.
TRAIN_ROUTE_ITEMS == dict_update(FORWARD_TRAIN_ROUTES, reverse_routes(FORWARD_TRAIN_ROUTES))

TRAIN_SERVICE_ROUTES ==
    [key \in {TRAIN_ROUTE_ITEMS[i].key : i \in 1..Len(TRAIN_ROUTE_ITEMS)} |->
        (CHOOSE item \in {TRAIN_ROUTE_ITEMS[i] : i \in 1..Len(TRAIN_ROUTE_ITEMS)} :
            item.key = key).data]

LoadedTables ==
    [GRID_INTENSITY |-> GRID_INTENSITY,
     DEFAULT_INTENSITY |-> DEFAULT_INTENSITY,
     TRAIN_STATIONS |-> [LHR |-> "London St Pancras", CDG |-> "Paris Gare du Nord",
                         BRU |-> "Bruxelles-Midi", LYS |-> "Lyon Part-Dieu"],
     TRAIN_ROUTES |-> TRAIN_SERVICE_ROUTES]

IdleWorker == [pc |-> "idle"]

\* What the workers are asked: get_grid_intensity for a country (GET
\* /v1/factors/hotels), get_train_route for a pair of airports (GET
\* /v1/trains/search).
WorkerRequests ==
    {[endpoint |-> "get_grid_intensity", country_code |-> c] : c \in {"GB", "gb", "ZZ"}}
    \cup {[endpoint |-> "get_train_route", origin |-> o, destination |-> d] :
             o \in {"LHR", "CDG", "BRU"}, d \in {"LHR", "CDG", "lhr"}}

\* What the handler holds after its lookup. get_grid_intensity builds a new
\* dictionary out of the table's entry; get_train_route builds a
\* TrainJourney whose stops is the list object of the table's entry, held
\* here as the key of that entry.
lookup(t, req) ==
    IF req.endpoint = "get_grid_intensity"
    THEN IF Upper(req.country_code) \in DOMAIN t.GRID_INTENSITY
         THEN [country_code |-> Upper(req.country_code)]
              @@ t.GRID_INTENSITY[Upper(req.country_code)]
         ELSE [country_code |-> Upper(req.country_code)] @@ t.DEFAULT_INTENSITY
    ELSE IF <<Upper(req.origin), Upper(req.destination)>> \notin DOMAIN t.TRAIN_ROUTES
    THEN [found |-> FALSE]
    ELSE LET key == <<Upper(req.origin), Upper(req.destination)>>
             route_data == t.TRAIN_ROUTES[key]
         IN  [found |-> TRUE,
              origin_station |-> Get(t.TRAIN_STATIONS, key[1], route_data.stops[1]),
              destination_station |->
                  Get(t.TRAIN_STATIONS, key[2], route_data.stops[Len(route_data.stops)]),
              operator |-> route_data.operator,
              duration_minutes |-> route_data.duration_minutes,
              distance_km |-> route_data.distance_km,
              stops |-> key,
              stop_count |-> Len(route_data.stops),
              frequency |-> route_data.frequency,
              high_speed |-> route_data.high_speed,
              co2_kg |-> route_data.co2_per_passenger_kg]

\* The handler as it would be if it put the stops of the journey in
\* travelling order by reversing the list it holds.
respond_reversing_stops(t, held) ==
    IF "found" \in DOMAIN held /\ held.found
    THEN [response |->
              [status |-> 200,
               body |-> [held EXCEPT !.stops =
                            [i \in 1..held.stop_count |->
                                t.TRAIN_ROUTES[held.stops].stops[held.stop_count + 1 - i]]]],
          tables |->
              [t EXCEPT !.TRAIN_ROUTES[held.stops].stops =
                  [i \in 1..held.stop_count |->
                      t.TRAIN_ROUTES[held.stops].stops[held.stop_count + 1 - i]]]]
    ELSE [response |-> [status |-> 200, body |-> held], tables |-> t]

\* The response the handler serializes out of what it holds, and the tables
\* as it leaves them: the stops are read through the journey's reference
\* when the response is built, and nothing is written.
respond(t, held) ==
    [response |->
         [status |-> 200,
          body |-> IF "found" \in DOMAIN held /\ held.found
                   THEN [held EXCEPT !.stops = t.TRAIN_ROUTES[held.stops].stops]
                   ELSE held],
     tables |-> t]

\* get_train_route: the journey of the exact (origin, destination) key of
\* the table, its stops read through the journey's reference.
get_train_route(t, origin, destination) ==
    respond(t, lookup(t, [endpoint |-> "get_train_route",
                          origin |-> origin,
                          destination |-> destination])).response.body

\* The city of each station of the routes above, and the place of each city
\* in the order of Python's string comparison.
TRAIN_STATION_CITIES ==
    [LHR |-> "London", CDG |-> "Paris", LYS |-> "Lyon", BRU |-> "Brussels"]

CityOrder(city) ==
    CASE city = "Brussels" -> 1
      [] city = "London" -> 2
      [] city = "Lyon" -> 3
      [] city = "Paris" -> 4

format_duration(minutes) ==
    IF minutes \div 60 > 0
    THEN <<minutes \div 60, "h ", minutes % 60, "m">>
    ELSE <<minutes % 60, "m">>

\* The loop of list_routes over the items of the table: a pair whose sorted
\* key was seen is skipped, the sorted key is marked seen, and only then is
\* the origin filter applied.
RECURSIVE listed_routes(_, _, _)
listed_routes(items, seen, origin_filter) ==
    IF items = <<>> THEN <<>>
    ELSE LET origin == Head(items).key[1]
             dest == Head(items).key[2]
             data == Head(items).data
             route_key == {origin, dest}
         IN  IF route_key \in seen
             THEN listed_routes(Tail(items), seen, origin_filter)
             ELSE IF origin_filter # "" /\ origin # origin_filter
             THEN listed_routes(Tail(items), seen \cup {route_key}, origin_filter)
             ELSE <<[origin |-> origin,
                     destination |-> dest,
                     origin_city |-> Get(TRAIN_STATION_CITIES, origin, origin),
                     destination_city |-> Get(TRAIN_STATION_CITIES, dest, dest),
                     operator |-> data.operator,
                     duration |-> format_duration(data.duration_minutes),
                     duration_minutes |-> data.duration_minutes,
                     distance_km |-> data.distance_km,
                     high_speed |-> data.high_speed,
                     co2_kg |-> data.co2_per_passenger_kg]>>
                  \o listed_routes(Tail(items), seen \cup {route_key}, origin_filter)

\* routes.sort by (origin_city, destination_city): a stable sort.
RECURSIVE InsertByCities(_, _)
InsertByCities(route, sorted) ==
    IF sorted = <<>> THEN <<route>>
    ELSE LET first == Head(sorted)
             before ==
                 \/ CityOrder(route.origin_city) < CityOrder(first.origin_city)
                 \/ /\ route.origin_city = first.origin_city
                    /\ CityOrder(route.destination_city)
                           < CityOrder(first.destination_city)
         IN  IF before THEN <<route>> \o sorted
             ELSE <<first>> \o InsertByCities(route, Tail(sorted))

RECURSIVE SortByCities(_, _)
SortByCities(routes, sorted) ==
    IF routes = <<>> THEN sorted
    ELSE SortByCities(Tail(routes), InsertByCities(Head(routes), sorted))

\* GET /v1/trains/routes: origin is the query parameter, "" when absent.
list_routes(origin) ==
    LET routes == SortByCities(listed_routes(TRAIN_ROUTE_ITEMS, {}, Upper(origin)), <<>>)
    IN  [status |-> 200, body |-> [count |-> Len(routes), routes |-> routes]]

\* The codes asked of the train service.
TrainServiceCodes == {"LHR", "CDG", "BRU", "LYS", "lhr", "XXX"}

NoLocals == [handler |-> "none"]

Init ==
    /\ pc = "idle"
    /\ request = [endpoint |-> "none"]
    /\ locals = NoLocals
    /\ response = [status |-> 0]
    /\ tables = LoadedTables
    /\ workers = [w \in 1..MaxWorkers |-> IdleWorker]

\* A call of calculate_confidence_score.
CallScore ==
    /\ pc = "idle"
    /\ \E factors \in FactorLists, has_carrier_data \in BOOLEAN,
          has_aircraft_data \in BOOLEAN, has_hotel_chain_data \in BOOLEAN,
          grid_data_quality \in GridQualities, haul_type \in HaulTypes :
          /\ request' = [endpoint |-> "calculate_confidence_score",
                         factors |-> factors,
                         has_carrier_data |-> has_carrier_data,
                         has_aircraft_data |-> has_aircraft_data,
                         has_hotel_chain_data |-> has_hotel_chain_data,
                         grid_data_quality |-> grid_data_quality,
                         haul_type |-> haul_type]
          /\ response' = calculate_confidence_score(
                             factors, has_carrier_data, has_aircraft_data,
                             has_hotel_chain_data, grid_data_quality, haul_type)
    /\ locals' = NoLocals
    /\ pc' = "done"
    /\ UNCHANGED <<tables, workers>>

\* A call of aggregate_confidence_factors.
CallAggregate ==
    /\ pc = "idle"
    /\ \E results \in UNION {[1..k -> CalculationResults] : k \in 0..MaxCount} :
          /\ request' = [endpoint |-> "aggregate_confidence_factors", results |-> results]
          /\ response' = [factors |-> aggregate_confidence_factors(results)]
    /\ locals' = NoLocals
    /\ pc' = "done"
    /\ UNCHANGED <<tables, workers>>

\* A call of calculate_hotel_emissions.
\* The grid qualities and haul types a caller that keeps its list passes:
\* one value for each branch of the scorer.
CallerGridQualities == {"measured", "estimated", "unknown"}
CallerHaulTypes == {"short", "long", None}

\* A caller takes a factors list that it keeps across its calls.
HoldFactors ==
    /\ pc = "idle"
    /\ \E factors \in FactorLists :
          locals' = [handler |-> "caller",
                     held_factors |-> factors,
                     caller_factors |-> factors,
                     called |-> FALSE,
                     other_called |-> FALSE,
                     first_request |-> [endpoint |-> "none"],
                     first_response |-> [status |-> 0]]
    /\ pc' = "held"
    /\ UNCHANGED <<request, response, tables, workers>>

\* The caller passes its list to calculate_confidence_score, any number of
\* times with any other arguments; the first call is remembered.
CallScoreHeld ==
    /\ pc = "held"
    /\ \E has_carrier_data \in BOOLEAN,
          has_aircraft_data \in BOOLEAN, has_hotel_chain_data \in BOOLEAN,
          grid_data_quality \in CallerGridQualities, haul_type \in CallerHaulTypes :
          LET arguments == [endpoint |-> "calculate_confidence_score",
                            factors |-> locals.caller_factors,
                            has_carrier_data |-> has_carrier_data,
                            has_aircraft_data |-> has_aircraft_data,
                            has_hotel_chain_data |-> has_hotel_chain_data,
                            grid_data_quality |-> grid_data_quality,
                            haul_type |-> haul_type]
              result == calculate_confidence_score(
                            locals.caller_factors, has_carrier_data,
                            has_aircraft_data, has_hotel_chain_data,
                            grid_data_quality, haul_type)
          IN  /\ request' = arguments
              /\ response' = result
              /\ locals' = [locals EXCEPT
                     !.caller_factors =
                         caller_factors_after(
                             locals.caller_factors,
                             appended_factors(has_carrier_data, has_aircraft_data,
                                              has_hotel_chain_data,
                                              grid_data_quality, haul_type)),
                     !.called = TRUE,
                     !.other_called =
                         locals.other_called
                         \/ (locals.called /\ arguments # locals.first_request),
                     !.first_request =
                         IF locals.called THEN locals.first_request ELSE arguments,
                     !.first_response =
                         IF locals.called THEN locals.first_response ELSE result]
    /\ pc' = "held"
    /\ UNCHANGED <<tables, workers>>

\* The caller drops its list.
ReleaseFactors ==
    /\ pc = "held"
    /\ pc' = "idle"
    /\ request' = [endpoint |-> "none"]
    /\ locals' = NoLocals
    /\ response' = [status |-> 0]
    /\ UNCHANGED <<tables, workers>>

CallGetTrainRoute ==
    /\ pc = "idle"
    /\ \E origin \in TrainServiceCodes, destination \in TrainServiceCodes :
          /\ request' = [endpoint |-> "get_train_route",
                         origin |-> origin, destination |-> destination]
          /\ response' = get_train_route(tables, origin, destination)
    /\ locals' = NoLocals
    /\ pc' = "done"
    /\ UNCHANGED <<tables, workers>>

GetTrainRoutes ==
    /\ pc = "idle"
    /\ \E origin \in TrainServiceCodes \cup {""} :
          /\ request' = [endpoint |-> "list_routes", origin |-> origin]
          /\ response' = list_routes(origin)
    /\ locals' = NoLocals
    /\ pc' = "done"
    /\ UNCHANGED <<tables, workers>>

CallHotel ==
    /\ pc = "idle"
    /\ \E country_code \in Countries, check_in \in 0..1, check_out \in 0..MaxNights,
          star_rating \in 0..6, room_count \in (0 - 1)..MaxCount,
          persons \in 0..MaxCount, sustainability_certified \in BOOLEAN,
          breakfast_type \in Breakfasts :
          /\ request' = [endpoint |-> "calculate_hotel_emissions",
                         country_code |-> country_code,
                         check_in |-> check_in, check_out |-> check_out,
                         star_rating |-> star_rating, room_count |-> room_count,
                         persons |-> persons,
                         sustainability_certified |-> sustainability_certified,
                         breakfast_type |-> breakfast_type]
          /\ response' = calculate_hotel_emissions(
                             country_code, check_in, check_out, star_rating,
                             room_count, persons, sustainability_certified,
                             breakfast_type)
    /\ locals' = NoLocals
    /\ pc' = "done"
    /\ UNCHANGED <<tables, workers>>

\* A call of calculate_flight_emissions.
CallFlight ==
    /\ pc = "idle"
    /\ \E origin \in AirportCodes, destination \in AirportCodes, cabin_class \in Cabins :
          /\ request' = [endpoint |-> "calculate_flight_emissions",
                         origin |-> origin, destination |-> destination,
                         cabin_class |-> cabin_class]
          /\ response' = calculate_flight_emissions(origin, destination, cabin_class)
    /\ locals' = NoLocals
    /\ pc' = "done"
    /\ UNCHANGED <<tables, workers>>

\* A call of get_haul_type.
CallHaulType ==
    /\ pc = "idle"
    /\ \E distance_km \in Distances :
          /\ request' = [endpoint |-> "get_haul_type", distance_km |-> distance_km]
          /\ response' = [haul_type |-> get_haul_type(distance_km)]
    /\ locals' = NoLocals
    /\ pc' = "done"
    /\ UNCHANGED <<tables, workers>>

\* GET /v1/factors/distance.
GetRouteDistance ==
    /\ pc = "idle"
    /\ \E origin \in AirportCodes, destination \in AirportCodes :
          /\ request' = [endpoint |-> "/v1/factors/distance",
                         origin |-> origin, destination |-> destination]
          /\ response' = calculate_route_distance(origin, destination)
    /\ locals' = NoLocals
    /\ pc' = "done"
    /\ UNCHANGED <<tables, workers>>

\* A call of find_train_alternative.
CallFindTrain ==
    /\ pc = "idle"
    /\ \E origin \in AirportCodes, destination \in AirportCodes :
          /\ request' = [endpoint |-> "find_train_alternative",
                         origin |-> origin, destination |-> destination]
          /\ response' = find_train_alternative(origin, destination)
    /\ locals' = NoLocals
    /\ pc' = "done"
    /\ UNCHANGED <<tables, workers>>

\* A call of get_flight_factor.
CallFlightFactor ==
    /\ pc = "idle"
    /\ \E haul_type \in HaulNames, cabin_class \in Cabins :
          /\ request' = [endpoint |-> "get_flight_factor",
                         haul_type |-> haul_type, cabin_class |-> cabin_class]
          /\ response' = [factor |-> get_flight_factor(haul_type, cabin_class)]
    /\ locals' = NoLocals
    /\ pc' = "done"
    /\ UNCHANGED <<tables, workers>>

\* A call of get_train_factor.
CallTrainFactor ==
    /\ pc = "idle"
    /\ \E train_type \in TrainTypes :
          /\ request' = [endpoint |-> "get_train_factor", train_type |-> train_type]
          /\ response' = [factor |-> get_train_factor(train_type)]
    /\ locals' = NoLocals
    /\ pc' = "done"
    /\ UNCHANGED <<tables, workers>>

\* A call of calculate_transfer_emissions.
CallTransfer ==
    /\ pc = "idle"
    /\ \E airport_code \in TransferAirports, vehicle_type \in VehicleTypes,
          is_round_trip \in BOOLEAN :
          /\ request' = [endpoint |-> "calculate_transfer_emissions",
                         airport_code |-> airport_code,
                         vehicle_type |-> vehicle_type,
                         is_round_trip |-> is_round_trip]
          /\ response' = calculate_transfer_emissions(airport_code, vehicle_type, is_round_trip)
    /\ locals' = NoLocals
    /\ pc' = "done"
    /\ UNCHANGED <<tables, workers>>

\* A call of calculate_city_transport_emissions.
CallCityTransport ==
    /\ pc = "idle"
    /\ \E distance_km \in CityDistances, vehicle_type \in VehicleTypes :
          /\ request' = [endpoint |-> "calculate_city_transport_emissions",
                         distance_km |-> distance_km, vehicle_type |-> vehicle_type]
          /\ response' = calculate_city_transport_emissions(distance_km, vehicle_type)
    /\ locals' = NoLocals
    /\ pc' = "done"
    /\ UNCHANGED <<tables, workers>>

\* A call of generate_alternatives; locals holds the list as built, before
\* the sort and the trim.
CallGenerateAlternatives ==
    /\ pc = "idle"
    /\ \E segments \in Itineraries(EngineSegments, MaxSegments) \cup {LongItinerary},
          max_alternatives \in (0 - 1)..MaxAlternatives :
          /\ request' = [endpoint |-> "generate_alternatives",
                         segments |-> segments,
                         max_alternatives |-> max_alternatives]
          /\ locals' = [handler |-> "generate_alternatives",
                        alternatives |-> built_alternatives(segments)]
          /\ response' = [alternatives |-> generate_alternatives(segments, max_alternatives)]
    /\ pc' = "done"
    /\ UNCHANGED <<tables, workers>>

\* The options object of an assessment request: absent, or asking for
\* alternatives with or without a count.
AssessOptions ==
    {[include_methodology |-> FALSE],
     [include_alternatives |-> TRUE],
     [include_alternatives |-> TRUE, alternative_count |-> 1]}

\* POST /v1/assess; locals holds grid_data_quality as the loop left it.
PostAssess ==
    /\ pc = "idle"
    /\ \E segments \in Itineraries(RequestSegments, MaxRequestSegments),
          traveler_count \in (0 - 1)..MaxCount, options \in AssessOptions :
          LET data == [segments |-> segments, traveler_count |-> traveler_count,
                       options |-> options]
          IN  /\ request' = [endpoint |-> "/v1/assess", data |-> data]
              /\ locals' = IF validate_request(data)
                            THEN assessment_locals(segment_results(data))
                            ELSE NoLocals
              /\ response' = assess_itinerary(data)
    /\ pc' = "done"
    /\ UNCHANGED <<tables, workers>>

\* POST /v1/assess/batch.
PostBatch ==
    /\ pc = "idle"
    /\ \E itineraries \in Batches :
          /\ request' = [endpoint |-> "/v1/assess/batch",
                         data |-> [batch_id |-> "batch", itineraries |-> itineraries]]
          /\ response' = batch_assess([batch_id |-> "batch", itineraries |-> itineraries])
    /\ locals' = NoLocals
    /\ pc' = "done"
    /\ UNCHANGED <<tables, workers>>

\* POST /v1/alternatives.
PostAlternatives ==
    /\ pc = "idle"
    /\ \E segments \in Itineraries(EngineSegments, MaxRequestSegments),
          constraints \in {[max_stops |-> 0], [max_alternatives |-> 2]},
          ranking \in Rankings :
          LET data == [segments |-> segments, constraints |-> constraints,
                       ranking_preference |-> ranking]
          IN  /\ request' = [endpoint |-> "/v1/alternatives", data |-> data]
              /\ response' = find_alternatives(data)
    /\ locals' = NoLocals
    /\ pc' = "done"
    /\ UNCHANGED <<tables, workers>>

\* A worker of the host framework takes a request.
Receive(w) ==
    /\ workers[w].pc = "idle"
    /\ \E req \in WorkerRequests :
          workers' = [workers EXCEPT ![w] = [pc |-> "received", request |-> req]]
    /\ UNCHANGED <<pc, request, locals, response, tables>>

\* The worker calls get_grid_intensity or get_train_route.
Lookup(w) ==
    /\ workers[w].pc = "received"
    /\ workers' = [workers EXCEPT ![w] =
                      [pc |-> "looked_up", request |-> workers[w].request,
                       held |-> lookup(tables, workers[w].request)]]
    /\ UNCHANGED <<pc, request, locals, response, tables>>

\* The worker builds its response.
Respond(w) ==
    /\ workers[w].pc = "looked_up"
    /\ workers' = [workers EXCEPT ![w] =
                      [pc |-> "done", request |-> workers[w].request,
                       response |-> respond(tables, workers[w].held).response]]
    /\ tables' = respond(tables, workers[w].held).tables
    /\ UNCHANGED <<pc, request, locals, response>>

\* The worker's response is sent.
Send(w) ==
    /\ workers[w].pc = "done"
    /\ workers' = [workers EXCEPT ![w] = IdleWorker]
    /\ UNCHANGED <<pc, request, locals, response, tables>>

\* The response is sent; the service keeps nothing of the request.
Reset ==
    /\ pc = "done"
    /\ pc' = "idle"
    /\ request' = [endpoint |-> "none"]
    /\ locals' = NoLocals
    /\ response' = [status |-> 0]
    /\ UNCHANGED <<tables, workers>>

Next ==
    \/ CallScore
    \/ CallAggregate
    \/ HoldFactors
    \/ CallScoreHeld
    \/ ReleaseFactors
    \/ CallGetTrainRoute
    \/ GetTrainRoutes
    \/ CallHotel
    \/ CallFlight
    \/ CallHaulType
    \/ GetRouteDistance
    \/ CallFindTrain
    \/ CallFlightFactor
    \/ CallTrainFactor
    \/ CallTransfer
    \/ CallCityTransport
    \/ CallGenerateAlternatives
    \/ PostAssess
    \/ PostBatch
    \/ PostAlternatives
    \/ Reset
    \/ \E w \in 1..MaxWorkers : Receive(w) \/ Lookup(w) \/ Respond(w) \/ Send(w)

Spec == Init /\ [][Next]_vars

\* The calculators and the scorer on their own.
NextScorer == CallScore \/ CallAggregate \/ Reset
SpecScorer == Init /\ [][NextScorer]_vars

\* The train service and the engine's route lookup.
NextTrainService == CallGetTrainRoute \/ GetTrainRoutes \/ CallFindTrain \/ Reset
SpecTrainService == Init /\ [][NextTrainService]_vars

\* The engine called directly and through POST /v1/assess.
NextSorted == CallGenerateAlternatives \/ PostAssess \/ Reset
SpecSorted == Init /\ [][NextSorted]_vars

\* The engine alone, for the claims on the eco-certified hotels.
NextEcoHotel == CallGenerateAlternatives \/ Reset
SpecEcoHotel == Init /\ [][NextEcoHotel]_vars

\* POST /v1/assess alone, for the claims on the confidence of an assessment.
NextAssess == PostAssess \/ Reset
SpecAssess == Init /\ [][NextAssess]_vars

NextCaller == HoldFactors \/ CallScoreHeld \/ ReleaseFactors
SpecCaller == Init /\ [][NextCaller]_vars

NextHotel == CallHotel \/ Reset
SpecHotel == Init /\ [][NextHotel]_vars

NextFlight == CallFlight \/ Reset
SpecFlight == Init /\ [][NextFlight]_vars

NextHaul == CallHaulType \/ GetRouteDistance \/ Reset
SpecHaul == Init /\ [][NextHaul]_vars

\* The route-table lookup on its own.
NextTrain == CallFindTrain \/ Reset
SpecTrain == Init /\ [][NextTrain]_vars

\* The factor lookups and the ground-transport calculators.
NextFactors ==
    \/ CallFlightFactor
    \/ CallTrainFactor
    \/ CallTransfer
    \/ CallCityTransport
    \/ Reset
SpecFactors == Init /\ [][NextFactors]_vars

\* The alternatives engine on its own.
NextEngine == CallGenerateAlternatives \/ Reset
SpecEngine == Init /\ [][NextEngine]_vars

\* The two POST endpoints.
NextRoutes == PostAssess \/ PostAlternatives \/ Reset
SpecRoutes == Init /\ [][NextRoutes]_vars

\* The endpoints that hand out the contents of the reference tables, served
\* by MaxWorkers workers at a time.
NextTables == \E w \in 1..MaxWorkers : Receive(w) \/ Lookup(w) \/ Respond(w) \/ Send(w)
SpecTables == Init /\ [][NextTables]_vars

\* The batch endpoint on its own.
NextBatch == PostBatch \/ Reset
SpecBatch == Init /\ [][NextBatch]_vars

\* =================================================================== claims
\* Each property below is stated over the request, the locals and the
\* response of a finished call (pc = "done").

Finished(endpoint) == pc = "done" /\ request.endpoint = endpoint

AlternativeIds(alternatives) ==
    {alternatives[i].alternative_id : i \in 1..Len(alternatives)}

\* ------------------------------------------------------------------- C1
\* A flight segment whose (origin, destination), upper-cased, is a key of the
\* route table, or whose (destination, origin) is.
OnRouteTable(seg) ==
    /\ IsType(seg, "flight")
    /\ \/ <<Upper(Get(seg, "origin", "")), Upper(Get(seg, "destination", ""))>>
             \in DOMAIN TRAIN_ROUTES
       \/ <<Upper(Get(seg, "destination", "")), Upper(Get(seg, "origin", ""))>>
             \in DOMAIN TRAIN_ROUTES

\* C1: generate_alternatives produces a train alternative, and so a combined
\* alternative, only for an itinerary with at least one flight segment whose
\* (origin, destination) pair is a key of the route table, forward or
\* reversed, compared case-insensitively.
C1_TrainOnlyOnRouteTable ==
    Finished("generate_alternatives") =>
        \A id \in {"alt_train", "alt_combined"} :
            (id \in AlternativeIds(locals.alternatives)
             \/ id \in AlternativeIds(response.alternatives))
            => \E i \in 1..Len(request.segments) : OnRouteTable(request.segments[i])

\* A train alternative is returned for an itinerary whose only flight on the
\* table is written reversed and in lower case, next to a flight off the table.
C1_Witness ==
    /\ Finished("generate_alternatives")
    /\ "alt_train" \in AlternativeIds(response.alternatives)
    /\ \E i \in 1..Len(request.segments) :
           /\ request.segments[i] = Flight("cdg", "lhr", "business")
           /\ \A j \in 1..Len(request.segments) :
                  OnRouteTable(request.segments[j]) => j = i
    /\ \E i \in 1..Len(request.segments) :
           /\ IsType(request.segments[i], "flight")
           /\ ~OnRouteTable(request.segments[i])

\* ------------------------------------------------------------------- C2
\* C2: the score is min(1, max(0, 0.65 + D)), D adding 0.05 for carrier data,
\* 0.05 for aircraft data, 0.08 for hotel-chain data, 0.10 for a measured
\* grid, 0.03 for an estimated one and -0.10 for any other grid quality,
\* 0.05 for a short haul and 0.02 for a long one; the level is "high" from
\* 0.80, "medium" from 0.60 and "low" below.  (Scores in hundredths.)
C2_ScoreFormula ==
    Finished("calculate_confidence_score") =>
        LET D == (IF request.has_carrier_data THEN 5 ELSE 0)
                 + (IF request.has_aircraft_data THEN 5 ELSE 0)
                 + (IF request.has_hotel_chain_data THEN 8 ELSE 0)
                 + (CASE request.grid_data_quality = "measured" -> 10
                      [] request.grid_data_quality = "estimated" -> 3
                      [] OTHER -> 0 - 10)
                 + (CASE request.haul_type = "short" -> 5
                      [] request.haul_type = "long" -> 2
                      [] OTHER -> 0)
        IN  /\ response.score = Min(100, Max(0, 65 + D))
            /\ response.score >= 0 /\ response.score <= 100
            /\ response.level = (IF response.score >= 80 THEN "high"
                                 ELSE IF response.score >= 60 THEN "medium"
                                 ELSE "low")

\* A call with a grid quality that is none of the three named values, every
\* flag set and a long haul: 0.65 + 0.18 - 0.10 + 0.02 = 0.75, "medium".
C2_Witness ==
    /\ Finished("calculate_confidence_score")
    /\ request.grid_data_quality = "unknown"
    /\ request.has_carrier_data /\ request.has_aircraft_data
    /\ request.has_hotel_chain_data
    /\ request.haul_type = "long"
    /\ response.score = 75
    /\ response.level = "medium"

\* ------------------------------------------------------------------- C3
\* The request with the country code of the hotel segment at position i
\* replaced.
WithCountry(data, i, country_code) ==
    [data EXCEPT !.segments[i].location.country_code = country_code]

\* A hotel segment whose country has no entry of its own in the grid table.
InUnknownCountry(seg) ==
    /\ IsType(seg, "hotel")
    /\ get_grid_intensity(seg.location.country_code).quality = "default"

\* C3: of two /v1/assess requests that differ only in the country code of
\* one hotel segment, known (measured or estimated) in one and unknown in
\* the other, the one with the unknown country gets the strictly lower
\* confidence score.
C3_UnknownCountryLowersConfidence ==
    (Finished("/v1/assess") /\ response.status = 200) =>
        \A i \in 1..Len(request.data.segments) :
            InUnknownCountry(request.data.segments[i]) =>
                \A known \in {"GB", "TR"} :
                    /\ assess_itinerary(WithCountry(request.data, i, known)).status = 200
                    /\ response.confidence_score.score
                       < assess_itinerary(WithCountry(request.data, i, known))
                             .confidence_score.score

\* ------------------------------------------------------------------- C4
\* C4: for every country code, dates, star rating, room count, person count
\* and breakfast type, calculate_hotel_emissions returns emissions_kg with
\* sustainability_certified = true that is at most the emissions_kg it
\* returns with sustainability_certified = false and the rest equal.
C4_CertifiedNeverAboveUncertified ==
    (Finished("calculate_hotel_emissions") /\ request.sustainability_certified) =>
        response.emissions_kg
        <= calculate_hotel_emissions(
               request.country_code, request.check_in, request.check_out,
               request.star_rating, request.room_count, request.persons,
               FALSE, request.breakfast_type).emissions_kg

\* ------------------------------------------------------------------- C5
\* The cabin classes of the factor table, in their order.
CabinRank == [economy |-> 1, premium_economy |-> 2, business |-> 3, first |-> 4]

\* The multiplier of each cabin class, in tenths: 1.0, 1.5, 3.0, 4.0.
CabinTenths == [economy |-> 10, premium_economy |-> 15, business |-> 30, first |-> 40]

\* The emissions of the flight of the request, in another cabin class.
InCabin(cabin_class) ==
    calculate_flight_emissions(request.origin, request.destination, cabin_class)

\* The factor of each cabin class is the economy factor of the haul type
\* times the multiplier of the class.
CabinFactorsAreMultiples ==
    \A haul_type \in {"short", "medium", "long"}, cabin_class \in DOMAIN CabinRank :
        get_flight_factor(haul_type, cabin_class) * 10
        = get_flight_factor(haul_type, "economy") * CabinTenths[cabin_class]

\* C5 as stated: for every flight whose origin and destination both resolve,
\* the emissions are strictly increasing in the cabin class, the factors
\* being the economy factor of the haul type times 1.0, 1.5, 3.0 and 4.0.
C5_StrictlyIncreasingInCabin ==
    (/\ Finished("calculate_flight_emissions")
     /\ response.found
     /\ request.cabin_class \in DOMAIN CabinRank) =>
        /\ CabinFactorsAreMultiples
        /\ \A higher \in DOMAIN CabinRank :
               CabinRank[higher] > CabinRank[request.cabin_class]
               => response.emissions_kg < InCabin(higher).emissions_kg

\* C5 amended: the same for every flight between two different airports
\* that resolve; a flight from an airport to itself has distance 0 and
\* emissions 0 in every cabin class.
C5_StrictlyIncreasingBetweenAirports ==
    (/\ Finished("calculate_flight_emissions")
     /\ response.found
     /\ get_airport(request.origin) # get_airport(request.destination)
     /\ request.cabin_class \in DOMAIN CabinRank) =>
        /\ CabinFactorsAreMultiples
        /\ \A higher \in DOMAIN CabinRank :
               CabinRank[higher] > CabinRank[request.cabin_class]
               => response.emissions_kg < InCabin(higher).emissions_kg

\* The shortest flight of the table, LHR to LGW, in economy: 41.3 km, and
\* its emissions still differ from those of premium economy.
C5_Witness ==
    /\ Finished("calculate_flight_emissions")
    /\ request.origin = "lhr" /\ request.destination = "LGW"
    /\ request.cabin_class = "economy"
    /\ response.found
    /\ response.emissions_kg > 0
    /\ response.emissions_kg < InCabin("premium_economy").emissions_kg
    /\ InCabin("premium_economy").emissions_kg < InCabin("business").emissions_kg
    /\ InCabin("business").emissions_kg < InCabin("first").emissions_kg

\* ------------------------------------------------------------------- C6
HaulRank == [short |-> 1, medium |-> 2, long |-> 3]

\* C6: a distance is short exactly when it is under 1500 km, medium exactly
\* from 1500 km to 4000 km, both included, and long exactly above 4000 km;
\* so the haul type is one of the three and never decreases with the
\* distance; and the haul type in a response of GET /v1/factors/distance is
\* the one get_haul_type gives for the distance of that response.
\* (Distances in tenths of a km.)
C6_HaulThresholds ==
    /\ Finished("get_haul_type") =>
           /\ response.haul_type = "short" <=> request.distance_km < 15000
           /\ response.haul_type = "medium"
              <=> (15000 <= request.distance_km /\ request.distance_km <= 40000)
           /\ response.haul_type = "long" <=> request.distance_km > 40000
           /\ response.haul_type \in {"short", "medium", "long"}
           /\ \A farther \in Distances :
                  farther >= request.distance_km
                  => HaulRank[get_haul_type(farther)] >= HaulRank[response.haul_type]
           /\ route_distance_haul_type(request.distance_km) = response.haul_type
    /\ (Finished("/v1/factors/distance") /\ response.status = 200) =>
           /\ response.haul_type = get_haul_type(response.distance_km)
           /\ response.haul_type = "short" <=> response.distance_km < 15000
           /\ response.haul_type = "long" <=> response.distance_km > 40000

\* get_haul_type at exactly 4000 km: medium.
C6_Witness ==
    /\ Finished("get_haul_type")
    /\ request.distance_km = 40000
    /\ response.haul_type = "medium"

\* The handler on a medium-haul pair of airports written in lower and upper
\* case.
C6_WitnessRoute ==
    /\ Finished("/v1/factors/distance")
    /\ request.origin = "lhr" /\ request.destination = "IST"
    /\ response.status = 200
    /\ response.haul_type = "medium"

\* ------------------------------------------------------------------- C7
\* The emissions of the train the route table holds for a flight segment on
\* the table: distance times the factor of the train type, to two decimals.
TrainEmissions(seg) ==
    LET key == IF <<Upper(seg.origin), Upper(seg.destination)>> \in DOMAIN TRAIN_ROUTES
               THEN <<Upper(seg.origin), Upper(seg.destination)>>
               ELSE <<Upper(seg.destination), Upper(seg.origin)>>
    IN  train_emissions_kg(TRAIN_ROUTES[key].distance_km,
                           get_train_factor(TRAIN_ROUTES[key].train_type))

\* The flight emissions of a flight segment; 0 for a flight whose airports
\* do not resolve, which has no flight emissions.
FlightEmissions(seg) ==
    emissions_or_zero(
        calculate_flight_emissions(Get(seg, "origin", ""), Get(seg, "destination", ""),
                                   Get(seg, "cabin_class", "economy")))

\* What a segment contributes to the total of the train alternative.
TrainContribution(seg) ==
    IF OnRouteTable(seg) THEN TrainEmissions(seg)
    ELSE IF IsType(seg, "flight") THEN FlightEmissions(seg)
    ELSE 0

OriginalFlightTotal(segments) ==
    Sum([i \in 1..Len(segments) |->
            IF IsType(segments[i], "flight") THEN FlightEmissions(segments[i]) ELSE 0])

\* C7: in the alt_train alternative, total_emissions.co2e_kg adds the
\* train's emissions for every flight with a substitution, the flight's own
\* emissions for every other flight and 0 for every other segment;
\* savings.absolute_kg is the sum of the original flight emissions minus
\* that total, so the two add up to the original flight total.
C7_TrainAlternativeTotals ==
    Finished("generate_alternatives") =>
        \A i \in 1..Len(locals.alternatives) :
            locals.alternatives[i].alternative_id = "alt_train" =>
                LET alt == locals.alternatives[i]
                IN  /\ alt.total_emissions.co2e_kg
                       = Sum([j \in 1..Len(request.segments) |->
                                 TrainContribution(request.segments[j])])
                    /\ alt.savings.absolute_kg
                       = OriginalFlightTotal(request.segments)
                         - alt.total_emissions.co2e_kg
                    /\ alt.total_emissions.co2e_kg + alt.savings.absolute_kg
                       = OriginalFlightTotal(request.segments)

\* A train alternative for a flight on the table, a flight off it and a
\* hotel: the total holds the flight kept, the savings only what the train
\* saves.
C7_Witness ==
    /\ Finished("generate_alternatives")
    /\ Len(request.segments) = 3
    /\ \E i, j, k \in 1..3 :
           /\ OnRouteTable(request.segments[i])
           /\ IsType(request.segments[j], "flight")
           /\ ~OnRouteTable(request.segments[j])
           /\ FlightEmissions(request.segments[j]) > 0
           /\ IsType(request.segments[k], "hotel")
    /\ \E i \in 1..Len(locals.alternatives) :
           /\ locals.alternatives[i].alternative_id = "alt_train"
           /\ locals.alternatives[i].savings.absolute_kg > 0
           /\ locals.alternatives[i].savings.absolute_kg
              < OriginalFlightTotal(request.segments)

\* ------------------------------------------------------------------- C8
\* The alternative of the given id in the list the engine built.
Built(id) ==
    locals.alternatives[CHOOSE i \in 1..Len(locals.alternatives) :
                            locals.alternatives[i].alternative_id = id]

\* C8: generate_alternatives produces alt_combined exactly when it produces
\* both alt_train and alt_eco_hotel; then the total of alt_combined is the
\* sum of their totals, its absolute savings the sum of their absolute
\* savings, and its engine-level percentage 0.
C8_CombinedIsBothAdded ==
    Finished("generate_alternatives") =>
        /\ "alt_combined" \in AlternativeIds(locals.alternatives)
           <=> {"alt_train", "alt_eco_hotel"} \subseteq AlternativeIds(locals.alternatives)
        /\ "alt_combined" \in AlternativeIds(locals.alternatives) =>
               /\ Built("alt_combined").total_emissions.co2e_kg
                  = Built("alt_train").total_emissions.co2e_kg
                    + Built("alt_eco_hotel").total_emissions.co2e_kg
               /\ Built("alt_combined").savings.absolute_kg
                  = Built("alt_train").savings.absolute_kg
                    + Built("alt_eco_hotel").savings.absolute_kg
               /\ Built("alt_combined").savings.percentage = 0
        /\ \A i \in 1..Len(response.alternatives) :
               response.alternatives[i].alternative_id = "alt_combined"
               => response.alternatives[i] = Built("alt_combined")

\* All three alternatives built and returned, the combined one among them.
C8_Witness ==
    /\ Finished("generate_alternatives")
    /\ AlternativeIds(response.alternatives)
       = {"alt_train", "alt_eco_hotel", "alt_combined"}
    /\ Built("alt_train").savings.percentage > 0
    /\ Built("alt_eco_hotel").savings.percentage > 0
    /\ Built("alt_combined").savings.absolute_kg > Built("alt_train").savings.absolute_kg

\* ------------------------------------------------------------------- C9
\* The order generate_alternatives produces the alternatives in.
ProductionRank == [alt_train |-> 1, alt_eco_hotel |-> 2, alt_combined |-> 3]

\* alternative a goes before alternative b: a higher percentage, or the same
\* percentage and produced earlier.
GoesBefore(a, b) ==
    \/ a.savings.percentage > b.savings.percentage
    \/ /\ a.savings.percentage = b.savings.percentage
       /\ ProductionRank[a.alternative_id] < ProductionRank[b.alternative_id]

\* C9: for max_alternatives N >= 0, generate_alternatives returns min(N,
\* number produced) of the alternatives it produced: those with the highest
\* engine-level percentage, in non-increasing order of percentage, and in
\* production order (train, eco-hotel, combined) where percentages are equal.
C9_TopNByPercentage ==
    (Finished("generate_alternatives") /\ request.max_alternatives >= 0) =>
        /\ Len(response.alternatives)
           = Min(request.max_alternatives, Len(locals.alternatives))
        /\ \A i, j \in 1..Len(locals.alternatives) :
               i < j => ProductionRank[locals.alternatives[i].alternative_id]
                        < ProductionRank[locals.alternatives[j].alternative_id]
        /\ \A k \in 1..Len(response.alternatives) :
               \E i \in 1..Len(locals.alternatives) :
                   locals.alternatives[i] = response.alternatives[k]
        /\ \A k, l \in 1..Len(response.alternatives) :
               k < l => GoesBefore(response.alternatives[k], response.alternatives[l])
        /\ \A i \in 1..Len(locals.alternatives) :
               locals.alternatives[i].alternative_id
                   \notin AlternativeIds(response.alternatives)
               => \A k \in 1..Len(response.alternatives) :
                      GoesBefore(response.alternatives[k], locals.alternatives[i])

\* One alternative asked for, three produced, the train and the eco-hotel
\* alternative with the same percentage: the train alternative is returned.
C9_Witness ==
    /\ Finished("generate_alternatives")
    /\ request.max_alternatives = 1
    /\ Len(locals.alternatives) = 3
    /\ Built("alt_train").savings.percentage = Built("alt_eco_hotel").savings.percentage
    /\ AlternativeIds(response.alternatives) = {"alt_train"}

\* The eco-hotel alternative produced second and returned first, ahead of
\* the train alternative.
C9_WitnessReordered ==
    /\ Finished("generate_alternatives")
    /\ Len(response.alternatives) >= 2
    /\ response.alternatives[1].alternative_id = "alt_eco_hotel"
    /\ response.alternatives[2].alternative_id = "alt_train"

\* ------------------------------------------------------------------ C10
\* absolute / total * 100 rounded to one decimal, in tenths of a percent,
\* and rounded to a whole percent; 0 when the total is 0.
ShareOfTotal(absolute_kg, total_kg) ==
    IF total_kg = 0 THEN 0 ELSE RoundQuotient(absolute_kg * 1000, total_kg)

WholeShareOfTotal(absolute_kg, total_kg) ==
    IF total_kg = 0 THEN 0 ELSE RoundQuotient(absolute_kg * 100, total_kg)

\* The alternative carries the percentage and the label of its absolute
\* savings against the total.
FinalizedAgainst(alt, total_kg) ==
    /\ alt.savings.percentage = ShareOfTotal(alt.savings.absolute_kg, total_kg)
    /\ alt.savings.label = Label(alt.savings.absolute_kg,
                                 WholeShareOfTotal(alt.savings.absolute_kg, total_kg),
                                 "reduction")

\* C10: in every 200 response of POST /v1/assess and POST /v1/alternatives,
\* the percentage of each returned alternative is its absolute savings over
\* the total emissions of the itinerary reported in the response, times 100,
\* to one decimal (0 when the total is 0), and its label is rebuilt from the
\* same two values.
C10_PercentageOfItineraryTotal ==
    /\ (Finished("/v1/assess") /\ response.status = 200) =>
           \A i \in 1..Len(response.lower_impact_alternatives) :
               FinalizedAgainst(response.lower_impact_alternatives[i],
                                response.total_emissions.co2e_kg)
    /\ (Finished("/v1/alternatives") /\ response.status = 200) =>
           \A i \in 1..Len(response.alternatives) :
               FinalizedAgainst(response.alternatives[i],
                                response.original_emissions.co2e_kg)

\* ------------------------------------------------------------------ C11
\* The saving of a segment: for a hotel, its emissions computed uncertified
\* minus its emissions computed certified; nothing for any other segment.
HotelSaving(seg) ==
    IF IsType(seg, "hotel")
    THEN engine_hotel_emissions(seg, FALSE).emissions_kg
         - engine_hotel_emissions(seg, TRUE).emissions_kg
    ELSE 0

NetHotelSaving(segments) ==
    Sum([i \in 1..Len(segments) |-> HotelSaving(segments[i])])

HasHotel(segments) == \E i \in 1..Len(segments) : IsType(segments[i], "hotel")

\* C11: generate_alternatives returns alt_eco_hotel only if the saving
\* summed over the hotel segments, uncertified minus certified emissions of
\* each, is strictly greater than 0; with no hotel segment, or a sum that is
\* not positive, there is no eco-hotel alternative.
C11_EcoHotelOnlyWithNetSaving ==
    Finished("generate_alternatives") =>
        /\ ("alt_eco_hotel" \in AlternativeIds(response.alternatives)
            \/ "alt_eco_hotel" \in AlternativeIds(locals.alternatives))
           => (HasHotel(request.segments) /\ NetHotelSaving(request.segments) > 0)
        /\ (~HasHotel(request.segments) \/ NetHotelSaving(request.segments) <= 0)
           => "alt_eco_hotel" \notin AlternativeIds(locals.alternatives)
        /\ \A i \in 1..Len(locals.alternatives) :
               locals.alternatives[i].alternative_id = "alt_eco_hotel"
               => locals.alternatives[i].savings.absolute_kg
                  = NetHotelSaving(request.segments)

\* An eco-hotel alternative returned for two hotels, one in an unknown
\* country and one whose dates do not parse, next to a flight.
C11_Witness ==
    /\ Finished("generate_alternatives")
    /\ "alt_eco_hotel" \in AlternativeIds(response.alternatives)
    /\ Len(request.segments) = 3
    /\ \E i, j, k \in 1..3 :
           /\ i # j
           /\ IsType(request.segments[i], "hotel")
           /\ IsType(request.segments[j], "hotel")
           /\ HotelSaving(request.segments[i]) # HotelSaving(request.segments[j])
           /\ IsType(request.segments[k], "flight")
    /\ NetHotelSaving(request.segments) > 0

\* No hotel in the itinerary, flights only: no eco-hotel alternative.
C11_WitnessNoHotel ==
    /\ Finished("generate_alternatives")
    /\ Len(request.segments) = 2
    /\ ~HasHotel(request.segments)
    /\ "alt_train" \in AlternativeIds(response.alternatives)
    /\ "alt_eco_hotel" \notin AlternativeIds(locals.alternatives)

\* ------------------------------------------------------------------ C12
\* The route of the table for the pair of the request, in either direction.
RouteOfRequest ==
    IF <<Upper(request.origin), Upper(request.destination)>> \in DOMAIN TRAIN_ROUTES
    THEN TRAIN_ROUTES[<<Upper(request.origin), Upper(request.destination)>>]
    ELSE TRAIN_ROUTES[<<Upper(request.destination), Upper(request.origin)>>]

RequestOnTable ==
    \/ <<Upper(request.origin), Upper(request.destination)>> \in DOMAIN TRAIN_ROUTES
    \/ <<Upper(request.destination), Upper(request.origin)>> \in DOMAIN TRAIN_ROUTES

\* The train is below the flight of the same pair in every cabin class.
TrainBelowFlight ==
    \A cabin_class \in DOMAIN CabinRank :
        /\ InCabin(cabin_class).found
        /\ response.emissions_kg < InCabin(cabin_class).emissions_kg

\* C12 as stated: for every pair of the route table, in either direction,
\* find_train_alternative returns emissions equal to the table distance
\* times the factor of the train type, strictly less than the flight
\* emissions of the pair; LHR-CDG gets train_type eurostar, 459 km and
\* 459 * 0.004 = 1.836 kg.  (Emissions in hundredths of a kg, factors in
\* thousandths: the product is in thousandths.)
C12_TrainEmissionsAreTheProduct ==
    (Finished("find_train_alternative") /\ RequestOnTable) =>
        /\ response.available
        /\ response.emissions_kg * 10
           = RouteOfRequest.distance_km * TRAIN_FACTORS_PER_KM[RouteOfRequest.train_type]
        /\ TrainBelowFlight
        /\ (Upper(request.origin) = "LHR" /\ Upper(request.destination) = "CDG") =>
               /\ response.train_type = "eurostar"
               /\ response.distance_km = 459
               /\ response.emissions_kg * 10 = 1836

\* C12 amended: the emissions returned are that product rounded to two
\* decimals, so within 0.005 kg of it, and LHR-CDG gets 1.84 kg.
C12_TrainEmissionsAreTheRoundedProduct ==
    (Finished("find_train_alternative") /\ RequestOnTable) =>
        /\ response.available
        /\ response.emissions_kg * 10
           - RouteOfRequest.distance_km * TRAIN_FACTORS_PER_KM[RouteOfRequest.train_type]
           \in (0 - 5)..5
        /\ response.emission_factor = TRAIN_FACTORS_PER_KM[RouteOfRequest.train_type]
        /\ TrainBelowFlight
        /\ (Upper(request.origin) = "LHR" /\ Upper(request.destination) = "CDG") =>
               /\ response.train_type = "eurostar"
               /\ response.distance_km = 459
               /\ response.emissions_kg = 184

\* The lookup of CDG to LHR written in lower case: the reversed key, the
\* Eurostar, 1.84 kg.
C12_Witness ==
    /\ Finished("find_train_alternative")
    /\ request.origin = "CDG" /\ request.destination = "lhr"
    /\ response.available
    /\ response.train_type = "eurostar"
    /\ response.emissions_kg = 184
    /\ TrainBelowFlight

\* ------------------------------------------------------------------ C13
\* The nights of the request: max(1, check_out - check_in).
NightsOfRequest == Max(1, request.check_out - request.check_in)

\* The formula of C13 on the request, in units of 0.00001 kg: the energy of
\* the clamped star rating (kWh) times 0.65 or 1 (in hundredths) times
\* nights, rooms and the intensity of the country (g per kWh, 475 for an
\* unknown country), plus the breakfast factor (hundredths of a kg) times
\* nights and persons.
HotelFormula ==
    HOTEL_ENERGY_KWH_PER_NIGHT[Max(1, Min(5, request.star_rating))]
    * (IF request.sustainability_certified THEN 65 ELSE 100)
    * NightsOfRequest * request.room_count
    * (IF Upper(request.country_code) \in DOMAIN GRID_INTENSITY
       THEN GRID_INTENSITY[Upper(request.country_code)].intensity
       ELSE 475)
    + (IF request.breakfast_type \in DOMAIN BREAKFAST_FACTORS
       THEN BREAKFAST_FACTORS[request.breakfast_type] ELSE 0)
      * NightsOfRequest * request.persons * 1000

\* The example of C13: GB, 2 nights, 1 room, 3 stars, uncertified, no
\* breakfast.
IsHotelExample ==
    /\ Upper(request.country_code) = "GB"
    /\ NightsOfRequest = 2
    /\ request.room_count = 1 /\ request.star_rating = 3
    /\ ~request.sustainability_certified
    /\ request.breakfast_type = "none"

\* C13 as stated: calculate_hotel_emissions returns emissions_kg equal to
\* kWh(clamp(star_rating, 1, 5)) * (0.65 if certified else 1) * nights *
\* room_count * grid_intensity(country) / 1000 + breakfast_factor * nights *
\* persons, with nights = max(1, check_out - check_in) and 475 for an
\* unknown country; the example gives 80 kWh and 15.84 kg.
C13_HotelEmissionsAreTheFormula ==
    Finished("calculate_hotel_emissions") =>
        /\ response.nights = NightsOfRequest
        /\ response.emissions_kg * 1000 = HotelFormula
        /\ IsHotelExample =>
               /\ response.energy_consumption_kwh = 80 * 100
               /\ response.emissions_kg = 1584

\* C13 amended: emissions_kg is that formula rounded to two decimals, so
\* within 0.005 kg of it.
C13_HotelEmissionsAreTheRoundedFormula ==
    Finished("calculate_hotel_emissions") =>
        /\ response.nights = NightsOfRequest
        /\ response.emissions_kg * 1000 - HotelFormula \in (0 - 500)..500
        /\ IsHotelExample =>
               /\ response.energy_consumption_kwh = 80 * 100
               /\ response.emissions_kg = 1584

\* The example itself, with two persons whose breakfast is not counted.
C13_Witness ==
    /\ Finished("calculate_hotel_emissions")
    /\ IsHotelExample
    /\ request.country_code = "gb"
    /\ request.persons = 2
    /\ response.emissions_kg = 1584

\* A certified stay of two persons with a buffet in an unknown country,
\* with a star rating above the scale and check-out before check-in.
C13_WitnessClamped ==
    /\ Finished("calculate_hotel_emissions")
    /\ request.country_code = "ZZ"
    /\ request.star_rating = 6
    /\ request.check_out < request.check_in
    /\ request.sustainability_certified
    /\ request.breakfast_type = "buffet" /\ request.persons = 2
    /\ request.room_count = 2
    /\ response.nights = 1
    /\ response.emissions_kg = 5380

\* ------------------------------------------------------------------ C14
\* The entry an itinerary gets when it is the only one of its batch.
AssessedAlone(itin) == batch_assess([itineraries |-> <<itin>>]).results[1]

\* C14: a batch of 1 to 100 itineraries is answered 200 with one entry per
\* itinerary, in request order, successful + failed = total_itineraries, and
\* whatever the other itineraries contain (not being an object included),
\* the entry of every itinerary that is an object is the entry it has when
\* assessed alone.
C14_BatchIsolatesItineraries ==
    (/\ Finished("/v1/assess/batch")
     /\ Len(request.data.itineraries) \in 1..MAX_BATCH_ITINERARIES)
    => /\ response.status = 200
       /\ Len(response.results) = Len(request.data.itineraries)
       /\ response.total_itineraries = Len(request.data.itineraries)
       /\ response.successful + response.failed = response.total_itineraries
       /\ \A i \in 1..Len(request.data.itineraries) :
              IsObject(request.data.itineraries[i])
              => response.results[i] = AssessedAlone(request.data.itineraries[i])

\* ------------------------------------------------------------------ C15
\* C15: a batch of more than 100 itineraries is answered 400
\* VALIDATION_ERROR with no results and no aggregate, whatever its elements
\* are: no element is validated or assessed.
C15_OversizedBatchRejectedFirst ==
    (/\ Finished("/v1/assess/batch")
     /\ Len(request.data.itineraries) > MAX_BATCH_ITINERARIES)
    => /\ response.status = 400
       /\ response.code = "VALIDATION_ERROR"
       /\ DOMAIN response = {"status", "code"}

\* An oversized batch of elements that would have ended the loop with an
\* exception had one of them been looked at.
C15_Witness ==
    /\ Finished("/v1/assess/batch")
    /\ Len(request.data.itineraries) = MAX_BATCH_ITINERARIES + 1
    /\ ~IsObject(request.data.itineraries[1])
    /\ response.status = 400

\* An oversized batch of itineraries that assess.
C15_WitnessAssessable ==
    /\ Finished("/v1/assess/batch")
    /\ Len(request.data.itineraries) = MAX_BATCH_ITINERARIES + 1
    /\ IsObject(request.data.itineraries[1])
    /\ AssessedAlone(request.data.itineraries[1]).status = "success"
    /\ response.status = 400

\* ------------------------------------------------------------------ C16
\* A segment as the claim reads it: malformed when it is no object, has no
\* known type or lacks a field its type requires.
SegmentMalformed(seg) ==
    \/ ~IsObject(seg)
    \/ Get(seg, "type", None) \notin SEGMENT_TYPES
    \/ /\ seg.type = "flight"
       /\ \/ Get(seg, "origin", "") = ""
          \/ Get(seg, "destination", "") = ""
          \/ "departure_date" \notin DOMAIN seg
    \/ /\ seg.type = "hotel"
       /\ \/ Get(Get(seg, "location", [city |-> ""]), "country_code", "") = ""
          \/ "check_in" \notin DOMAIN seg
          \/ "check_out" \notin DOMAIN seg

SegmentsMissingOrMalformed(data) ==
    \/ Get(data, "segments", <<>>) = <<>>
    \/ Len(data.segments) > MAX_SEGMENTS_PER_REQUEST
    \/ \E i \in 1..Len(data.segments) : SegmentMalformed(data.segments[i])

\* A well-formed segment that names an airport the table does not have, or
\* a check-in or check-out date that does not parse.
SegmentUnresolvable(seg) ==
    \/ /\ seg.type = "flight"
       /\ \/ Upper(seg.origin) \notin AIRPORTS
          \/ Upper(seg.destination) \notin AIRPORTS
    \/ /\ seg.type = "hotel"
       /\ ~(ParsesAsDate(seg.check_in) /\ ParsesAsDate(seg.check_out))

Unresolvable(data) ==
    \E i \in 1..Len(data.segments) : SegmentUnresolvable(data.segments[i])

\* C16: POST /v1/assess answers 400 VALIDATION_ERROR, with no segment
\* computed, exactly when the segments are missing or malformed; otherwise
\* 422 PROCESSING_ERROR exactly when an airport or a date does not resolve;
\* otherwise 500 INTERNAL_ERROR with the generic message for any other
\* failure, and 200 with an assessment when nothing fails. No request gets
\* another outcome.
C16_FourOutcomes ==
    Finished("/v1/assess")
    => IF SegmentsMissingOrMalformed(request.data)
       THEN /\ response.status = 400
            /\ response.code = "VALIDATION_ERROR"
            /\ locals = NoLocals
       ELSE IF Unresolvable(request.data)
       THEN /\ response.status = 422
            /\ response.code = "PROCESSING_ERROR"
       ELSE IF request.data.traveler_count = 0
       THEN /\ response.status = 500
            /\ response.code = "INTERNAL_ERROR"
            /\ response.message = GENERIC_MESSAGE
       ELSE /\ response.status = 200
            /\ "total_emissions" \in DOMAIN response

\* ------------------------------------------------------------------ C17
\* C17: a request whose segments are well formed and name an airport absent
\* from the table, or carry a check-in or check-out date that does not
\* parse, gets a processing error from /v1/assess (process_assessment) and
\* from /v1/alternatives (calculate_original_emissions and
\* generate_alternatives): neither answers 200 with emissions.
C17_MissingEntityFails ==
    /\ (/\ Finished("/v1/assess")
        /\ ~SegmentsMissingOrMalformed(request.data)
        /\ Unresolvable(request.data))
       => response.status = 422 /\ response.code = "PROCESSING_ERROR"
    /\ (/\ Finished("/v1/alternatives")
        /\ ~SegmentsMissingOrMalformed(request.data)
        /\ Unresolvable(request.data))
       => response.status = 422 /\ response.code = "PROCESSING_ERROR"

\* ------------------------------------------------------------------ C18
\* The categories each lookup recognizes: get_flight_factor compares the
\* lower-cased names with the keys of its table, get_train_factor the name
\* as given.
HaulRecognized(haul_type) == Lower(haul_type) \in {"short", "medium", "long"}
CabinRecognized(cabin_class) ==
    Lower(cabin_class) \in {"economy", "premium_economy", "business", "first"}
TrainRecognized(train_type) == train_type \in DOMAIN TRAIN_FACTORS_PER_KM

\* The entry the flight table has for a haul type and a cabin class.
FlightTableEntry(haul, cabin) == ECONOMY_FACTOR[haul] * CABIN_MULTIPLIER[cabin]

\* C18: get_flight_factor returns the table entry of the haul type, medium
\* for a haul type it does not recognize, and of the cabin class, economy
\* for a cabin class it does not recognize; get_train_factor returns the
\* table entry of the train type, eu_high_speed for a train type it does
\* not recognize. Every call returns a factor.
C18_LookupsDefaultUnknownCategories ==
    /\ Finished("get_flight_factor")
       => response.factor =
              FlightTableEntry(
                  IF HaulRecognized(request.haul_type)
                  THEN Lower(request.haul_type) ELSE "medium",
                  IF CabinRecognized(request.cabin_class)
                  THEN Lower(request.cabin_class) ELSE "economy")
    /\ Finished("get_train_factor")
       => response.factor =
              IF TrainRecognized(request.train_type)
              THEN TRAIN_FACTORS_PER_KM[request.train_type]
              ELSE 15

\* Both flight categories unknown: the medium-haul economy factor.
C18_Witness ==
    /\ Finished("get_flight_factor")
    /\ ~HaulRecognized(request.haul_type)
    /\ ~CabinRecognized(request.cabin_class)
    /\ response.factor = 1300

\* An unknown train type.
C18_WitnessTrain ==
    /\ Finished("get_train_factor")
    /\ ~TrainRecognized(request.train_type)
    /\ response.factor = 15

\* ------------------------------------------------------------------ C19
\* The one-way distance of an airport transfer, from the claim's words.
OneWayDistance(airport_code) ==
    IF Upper(airport_code) \in DOMAIN AIRPORT_TRANSFER_DISTANCES
    THEN AIRPORT_TRANSFER_DISTANCES[Upper(airport_code)]
    ELSE 25

VehicleFactor(vehicle_type) ==
    IF vehicle_type \in DOMAIN CAR_FACTORS_PER_KM
    THEN CAR_FACTORS_PER_KM[vehicle_type]
    ELSE CAR_FACTORS_PER_KM["taxi"]

\* emissions (hundredths of a kg) is the product of a distance (km) and a
\* factor (thousandths of a kg per km) to two decimals.
IsProduct(emissions, distance, factor) ==
    /\ 10 * emissions - distance * factor <= 5
    /\ distance * factor - 10 * emissions <= 5

\* C19: calculate_transfer_emissions returns, for every airport code and
\* vehicle type, the distance of the table (25 km for an unknown airport),
\* doubled exactly when is_round_trip, and that distance times the vehicle
\* factor to two decimals; an unrecognized vehicle type gives the emissions,
\* the distance and the factor of taxi. calculate_city_transport_emissions
\* returns the supplied distance times the same factor to two decimals.
C19_TransportIsDistanceTimesFactor ==
    /\ Finished("calculate_transfer_emissions")
       => /\ response.distance_km =
                 IF request.is_round_trip
                 THEN 2 * OneWayDistance(request.airport_code)
                 ELSE OneWayDistance(request.airport_code)
          /\ response.factor_per_km = VehicleFactor(request.vehicle_type)
          /\ IsProduct(response.emissions_kg, response.distance_km,
                       response.factor_per_km)
          /\ request.vehicle_type \notin DOMAIN CAR_FACTORS_PER_KM
             => LET taxi == calculate_transfer_emissions(
                                request.airport_code, "taxi", request.is_round_trip)
                IN  /\ response.emissions_kg = taxi.emissions_kg
                    /\ response.distance_km = taxi.distance_km
                    /\ response.factor_per_km = taxi.factor_per_km
    /\ Finished("calculate_city_transport_emissions")
       => /\ response.distance_km = request.distance_km
          /\ response.factor_per_km = VehicleFactor(request.vehicle_type)
          /\ IsProduct(response.emissions_kg, request.distance_km,
                       response.factor_per_km)

\* An unknown airport with an unrecognized vehicle type, one way: 25 km at
\* the taxi factor, 3.72 kg.
C19_Witness ==
    /\ Finished("calculate_transfer_emissions")
    /\ Upper(request.airport_code) \notin DOMAIN AIRPORT_TRANSFER_DISTANCES
    /\ request.vehicle_type \notin DOMAIN CAR_FACTORS_PER_KM
    /\ ~request.is_round_trip
    /\ response.distance_km = 25
    /\ response.emissions_kg = 372

\* A known airport, round trip.
C19_WitnessRoundTrip ==
    /\ Finished("calculate_transfer_emissions")
    /\ request.airport_code = "LGW"
    /\ request.is_round_trip
    /\ response.distance_km = 90

\* A city ride in a vehicle no table has.
C19_WitnessCity ==
    /\ Finished("calculate_city_transport_emissions")
    /\ request.vehicle_type = "rocket"
    /\ request.distance_km = 12
    /\ response.emissions_kg = 179

C20_WitnessGrid ==
    \E v \in 1..MaxWorkers, w \in 1..MaxWorkers :
        /\ workers[v].pc = "done"
        /\ workers[v].request.endpoint = "get_grid_intensity"
        /\ workers[v].response.body.quality = "default"
        /\ workers[w].pc = "received"
        /\ workers[w].request.endpoint = "get_grid_intensity"

\* ------------------------------------------------------------------ C21
\* The names of the factors the scorer appends for a call, in the order it
\* appends them: carrier, aircraft, grid, haul, hotel chain.
AppendedNames(req) ==
    (IF req.has_carrier_data THEN <<"airline_specific_data">> ELSE <<>>)
    \o (IF req.has_aircraft_data THEN <<"aircraft_type_known">> ELSE <<>>)
    \o <<CASE req.grid_data_quality = "measured" -> "measured_grid_intensity"
           [] req.grid_data_quality = "estimated" -> "estimated_grid_intensity"
           [] OTHER -> "default_grid_intensity">>
    \o (CASE req.haul_type = "short" -> <<"short_haul_accuracy">>
          [] req.haul_type = "long" -> <<"long_haul_route">>
          [] OTHER -> <<>>)
    \o (IF req.has_hotel_chain_data THEN <<"hotel_chain_data">> ELSE <<>>)

\* The positions of a list that hold the first entry of their factor name.
FirstOccurrences(names) ==
    {i \in 1..Len(names) : \A j \in 1..(i - 1) : names[j] # names[i]}

\* unique is the list of the entries at the first occurrences, in order;
\* candidates[i] is the entry at position i when it comes from the caller,
\* and any entry of that name when the scorer appended it.
KeepsFirstOccurrences(unique, names, given) ==
    /\ Len(unique) = Cardinality(FirstOccurrences(names))
    /\ \A k \in 1..Len(unique), l \in 1..Len(unique) :
          k # l => unique[k].factor # unique[l].factor
    /\ \A i \in FirstOccurrences(names) :
          LET k == Cardinality({j \in FirstOccurrences(names) : j <= i})
          IN  /\ unique[k].factor = names[i]
              /\ i <= Len(given) => unique[k] = given[i]

NamesOf(factors) == [i \in 1..Len(factors) |-> factors[i].factor]

\* C21: the factor list of calculate_confidence_score has no two entries of
\* one name and holds, in order of first occurrence, one entry for every
\* name of the input factors followed by the appended ones, an input entry
\* winning over a later entry of its name; aggregate_confidence_factors
\* does the same over the factors of its results.
C21_FactorsKeepFirstOccurrence ==
    /\ Finished("calculate_confidence_score")
       => KeepsFirstOccurrences(
              response.factors,
              NamesOf(request.factors) \o AppendedNames(request),
              request.factors)
    /\ Finished("aggregate_confidence_factors")
       => KeepsFirstOccurrences(
              response.factors,
              NamesOf(factors_of_results(request.results)),
              factors_of_results(request.results))

\* The caller's own hotel_chain_data entry is returned, not the one the
\* scorer appends after it.
C21_Witness ==
    /\ Finished("calculate_confidence_score")
    /\ request.has_hotel_chain_data
    /\ \E i \in 1..Len(request.factors) :
          /\ request.factors[i].factor = "hotel_chain_data"
          /\ \E k \in 1..Len(response.factors) : response.factors[k] = request.factors[i]
    /\ \A k \in 1..Len(response.factors) :
          response.factors[k] # Factor("hotel_chain_data", "scorer")

\* Two results that share factor names, aggregated.
C21_WitnessAggregate ==
    /\ Finished("aggregate_confidence_factors")
    /\ Len(request.results) = 2
    /\ Len(factors_of_results(request.results)) > Len(response.factors)
    /\ Len(response.factors) >= 2

C23_LookupIsDirectionIndependent ==
    /\ Finished("get_train_route")
       => LET back == get_train_route(tables, request.destination, request.origin)
          IN  /\ response.found = back.found
              /\ response.found
                 => /\ response.operator = back.operator
                    /\ response.distance_km = back.distance_km
                    /\ response.duration_minutes = back.duration_minutes
                    /\ response.frequency = back.frequency
                    /\ response.co2_kg = back.co2_kg
                    /\ response.stops = Reversed(back.stops)
    /\ Finished("find_train_alternative")
       => LET back == find_train_alternative(request.destination, request.origin)
          IN  /\ response.available = back.available
              /\ response.available => response.emissions_kg = back.emissions_kg

\* A route asked against the direction the table literal lists it in, with
\* more than two stops.
C23_Witness ==
    /\ Finished("get_train_route")
    /\ response.found
    /\ Len(response.stops) > 2
    /\ \A i \in 1..Len(FORWARD_TRAIN_ROUTES) :
          FORWARD_TRAIN_ROUTES[i].key # <<Upper(request.origin), Upper(request.destination)>>

\* The engine asked against the direction of its table.
C23_WitnessEngine ==
    /\ Finished("find_train_alternative")
    /\ response.available
    /\ <<Upper(request.origin), Upper(request.destination)>> \notin DOMAIN TRAIN_ROUTES

\* ------------------------------------------------------------------ C30
\* The undirected routes of the bidirectional table, and the entries of a
\* listing that show a given pair in either direction.
UndirectedRoutes == {{key[1], key[2]} : key \in DOMAIN tables.TRAIN_ROUTES}

EntriesOfPair(routes, pair) ==
    {i \in 1..Len(routes) : {routes[i].origin, routes[i].destination} = pair}

\* C30: GET /v1/trains/routes lists every undirected route exactly once,
\* never a pair and its reverse; with the origin filter X it lists exactly
\* one entry, of origin X, for every airport Y such that the bidirectional
\* table has a route between X and Y.
C30_RoutesListedOncePerPair ==
    Finished("list_routes")
    => LET routes == response.body.routes
           X == Upper(request.origin)
       IN  IF X = ""
           THEN /\ \A pair \in UndirectedRoutes :
                      Cardinality(EntriesOfPair(routes, pair)) = 1
                /\ Len(routes) = Cardinality(UndirectedRoutes)
           ELSE /\ \A i \in 1..Len(routes) : routes[i].origin = X
                /\ \A key \in DOMAIN tables.TRAIN_ROUTES :
                      key[1] = X
                      => Cardinality({i \in 1..Len(routes) :
                                         routes[i].destination = key[2]}) = 1
                /\ Len(routes) =
                      Cardinality({key \in DOMAIN tables.TRAIN_ROUTES : key[1] = X})

\* What the code does: the unfiltered listing has each undirected route
\* once, and the filtered listing has the routes the table literal lists
\* with origin X, the pairs it lists with X as destination being marked
\* seen before the filter is applied.
C30_FilteredListingHasForwardRoutesOnly ==
    Finished("list_routes")
    => LET routes == response.body.routes
           X == Upper(request.origin)
           forward == {FORWARD_TRAIN_ROUTES[i].key : i \in 1..Len(FORWARD_TRAIN_ROUTES)}
       IN  IF X = ""
           THEN /\ \A pair \in UndirectedRoutes :
                      Cardinality(EntriesOfPair(routes, pair)) = 1
                /\ Len(routes) = Cardinality(UndirectedRoutes)
           ELSE /\ {<<routes[i].origin, routes[i].destination>> : i \in 1..Len(routes)}
                      = {key \in forward : key[1] = X}
                /\ Len(routes) = Cardinality({key \in forward : key[1] = X})

\* The listing filtered by CDG lacks the route to LHR.
C30_Witness ==
    /\ Finished("list_routes")
    /\ Upper(request.origin) = "CDG"
    /\ <<"CDG", "LHR">> \in DOMAIN tables.TRAIN_ROUTES
    /\ \A i \in 1..Len(response.body.routes) :
          response.body.routes[i].destination # "LHR"
    /\ response.body.count = 2

\* ------------------------------------------------------------------ C24
\* The emissions the claim gives each segment of a request: a flight's
\* emissions times traveler_count, a hotel's emissions as they are, a
\* transfer's emissions times traveler_count unless the segment is shared,
\* a point-to-point ride's emissions as they are.
ClaimedEmissions(seg, index, traveler_count) ==
    CASE seg.type = "flight" ->
             process_flight_segment(seg, index).emissions_kg * traveler_count
      [] seg.type = "hotel" ->
             process_hotel_segment(seg, index, traveler_count).emissions_kg
      [] seg.type = "transfer" ->
             calculate_transfer_emissions(Get(seg, "airport", ""),
                                          Get(seg, "vehicle_type", "uber_x"),
                                          Get(seg, "round_trip", TRUE)).emissions_kg
             * (IF "shared" \in DOMAIN seg /\ seg.shared THEN 1 ELSE traveler_count)
      [] OTHER ->
             calculate_city_transport_emissions(
                 Get(seg, "distance_km", DEFAULT_CITY_DISTANCE_KM),
                 Get(seg, "vehicle_type", "uber_x")).emissions_kg

ClaimedTotal(segments, traveler_count, types) ==
    Sum([i \in 1..Len(segments) |->
            IF segments[i].type \in types
            THEN ClaimedEmissions(segments[i], i - 1, traveler_count) ELSE 0])

\* C24: in every successful assessment co2e_kg = flights_kg + hotels_kg +
\* transport_kg, flights_kg being the sum of each flight's emissions times
\* traveler_count, hotels_kg the sum of the hotel emissions, transport_kg
\* the sum of the transfer emissions (times traveler_count unless shared)
\* and of the point-to-point emissions; per_traveler_kg is the total
\* divided by traveler_count, at the two decimals of the response; and the
\* response has one segment result per request segment, in request order,
\* segment_index being the position.
C24_TotalsAndSegments ==
    (Finished("/v1/assess") /\ response.status = 200)
    => LET data == request.data
           n == data.traveler_count
           total == response.total_emissions
       IN  /\ total.co2e_kg = total.breakdown.flights_kg
                  + total.breakdown.hotels_kg + total.breakdown.transport_kg
           /\ total.breakdown.flights_kg = ClaimedTotal(data.segments, n, {"flight"})
           /\ total.breakdown.hotels_kg = ClaimedTotal(data.segments, n, {"hotel"})
           /\ total.breakdown.transport_kg
                  = ClaimedTotal(data.segments, n, {"transfer", "taxi", "transport"})
           /\ total.per_traveler_kg = RoundQuotient(total.co2e_kg, n)
           /\ Len(response.segments) = Len(data.segments)
           /\ \A i \in 1..Len(data.segments) :
                 /\ response.segments[i].segment_index = i - 1
                 /\ response.segments[i].type
                        = (IF data.segments[i].type = "taxi" THEN "transport"
                           ELSE data.segments[i].type)
                 /\ response.segments[i].emissions_kg
                        = ClaimedEmissions(data.segments[i], i - 1, n)

\* Two travelers, a flight and a shared transfer: the flight counts twice,
\* the transfer once.
C24_Witness ==
    /\ Finished("/v1/assess")
    /\ response.status = 200
    /\ request.data.traveler_count = 2
    /\ Len(request.data.segments) = 2
    /\ request.data.segments[1].type = "flight"
    /\ request.data.segments[2].type = "transfer"
    /\ "shared" \in DOMAIN request.data.segments[2]
    /\ response.total_emissions.breakdown.flights_kg > 0
    /\ response.total_emissions.breakdown.transport_kg > 0

\* ------------------------------------------------------------------ C25
SegmentsSum(alt) == Sum([i \in 1..Len(alt.segments) |-> alt.segments[i].emissions_kg])

OneEntryPerSegment(alt, segments) ==
    /\ Len(alt.segments) = Len(segments)
    /\ \A i \in 1..Len(segments) : alt.segments[i].original_segment_index = i - 1

\* C25: for every alternative generate_alternatives returns, alt_train,
\* alt_eco_hotel and alt_combined, the emissions_kg of the entries of its
\* segments list add up to its total_emissions.co2e_kg, and the list has
\* one entry per input segment, in order, original_segment_index being the
\* input position.
C25_SegmentsAddUpToTotal ==
    Finished("generate_alternatives")
    => \A k \in 1..Len(response.alternatives) :
          LET alt == response.alternatives[k]
          IN  /\ SegmentsSum(alt) = alt.total_emissions.co2e_kg
              /\ OneEntryPerSegment(alt, request.segments)

\* What the code does: the entries of alt_train and of alt_eco_hotel add up
\* to their totals; alt_combined carries the entries of alt_train, whose
\* hotels count 0, under a total that includes the eco-certified hotels.
C25_CombinedListsTheTrainSegments ==
    Finished("generate_alternatives")
    => \A k \in 1..Len(response.alternatives) :
          LET alt == response.alternatives[k]
          IN  /\ OneEntryPerSegment(alt, request.segments)
              /\ alt.alternative_id # "alt_combined"
                 => SegmentsSum(alt) = alt.total_emissions.co2e_kg
              /\ alt.alternative_id = "alt_combined"
                 => /\ SegmentsSum(alt) < alt.total_emissions.co2e_kg
                    /\ \E t \in 1..Len(locals.alternatives) :
                          /\ locals.alternatives[t].alternative_id = "alt_train"
                          /\ alt.segments = locals.alternatives[t].segments

\* alt_combined is returned for a flight with a train and a hotel.
C25_Witness ==
    /\ Finished("generate_alternatives")
    /\ \E k \in 1..Len(response.alternatives) :
          /\ response.alternatives[k].alternative_id = "alt_combined"
          /\ SegmentsSum(response.alternatives[k])
                 # response.alternatives[k].total_emissions.co2e_kg

\* ------------------------------------------------------------------ C26
\* C26: in every 200 response of POST /v1/assess, whatever traveler_count,
\* room_count, persons, breakfast and sustainability_certified the accepted
\* request carries, every returned alternative has
\* 0 <= savings.absolute_kg <= total_emissions.co2e_kg of the assessment,
\* and its savings.percentage lies between 0 and 100.
C26_SavingsWithinTotal ==
    (Finished("/v1/assess") /\ response.status = 200)
    => \A k \in 1..Len(response.lower_impact_alternatives) :
          LET savings == response.lower_impact_alternatives[k].savings
          IN  /\ 0 <= savings.absolute_kg
              /\ savings.absolute_kg <= response.total_emissions.co2e_kg
              /\ 0 <= savings.percentage
              /\ savings.percentage <= 1000

\* With one traveler or more the saving can still exceed the total: the
\* engine prices one room where the request has none.
C26_Witness ==
    /\ Finished("/v1/assess")
    /\ response.status = 200
    /\ request.data.traveler_count >= 1
    /\ \E k \in 1..Len(response.lower_impact_alternatives) :
          response.lower_impact_alternatives[k].savings.absolute_kg
              > response.total_emissions.co2e_kg

\* What holds of every 200 response: no saving is negative and the
\* percentage is never negative; it is 0 whenever the total is not positive.
C26_SavingsNeverNegative ==
    (Finished("/v1/assess") /\ response.status = 200)
    => \A k \in 1..Len(response.lower_impact_alternatives) :
          LET savings == response.lower_impact_alternatives[k].savings
          IN  /\ 0 <= savings.absolute_kg
              /\ 0 <= savings.percentage
              /\ response.total_emissions.co2e_kg <= 0 => savings.percentage = 0

\* ------------------------------------------------------------------ C27
\* A segment without the fields the claim says the engine does not read.
OWN_HOTEL_FIELDS == {"sustainability_certified", "room_count", "persons", "breakfast"}

WithoutOwnFields(segments) ==
    [i \in 1..Len(segments) |->
        [k \in DOMAIN segments[i] \ OWN_HOTEL_FIELDS |-> segments[i][k]]]

EcoHotelOf(alternatives) ==
    SelectSeq(alternatives, LAMBDA alt : alt.alternative_id = "alt_eco_hotel")

EcoHotelWithoutOwnFields(segments) ==
    generate_eco_hotel_alternative(
        WithoutOwnFields(segments),
        SelectSeq(WithoutOwnFields(segments), LAMBDA seg : IsType(seg, "hotel")))

\* C27: generate_alternatives produces alt_eco_hotel exactly when the
\* itinerary has a hotel segment: the saving of every hotel segment is
\* strictly positive, and neither the production nor savings.absolute_kg
\* depends on the sustainability_certified, room_count, persons or
\* breakfast of the segment.
C27_EcoHotelForEveryHotelItinerary ==
    Finished("generate_alternatives")
    => LET produced == EcoHotelOf(locals.alternatives)
           without == EcoHotelWithoutOwnFields(request.segments)
       IN  /\ (produced # <<>>) = HasHotel(request.segments)
           /\ \A i \in 1..Len(request.segments) :
                 IsType(request.segments[i], "hotel")
                 => eco_hotel_alternative_step(request.segments[i], i - 1).savings > 0
           /\ Len(produced) = Len(without)
           /\ \A k \in 1..Len(produced) :
                 produced[k].savings.absolute_kg = without[k].savings.absolute_kg

\* An itinerary whose only hotel has no room: alt_eco_hotel is produced.
C27_Witness ==
    /\ Finished("generate_alternatives")
    /\ Len(request.segments) = 1
    /\ IsType(request.segments[1], "hotel")
    /\ "room_count" \in DOMAIN request.segments[1]
    /\ request.segments[1].room_count = 0
    /\ EcoHotelOf(locals.alternatives) # <<>>
    /\ EcoHotelOf(locals.alternatives)[1].savings.absolute_kg > 0

\* The hotel of the lowest grid intensity and the lowest star rating, for
\* one night: its saving is the smallest and is positive.
C27_WitnessSmallestSaving ==
    /\ Finished("generate_alternatives")
    /\ request.segments = <<Hotel("IS", 10, 11, 1)>>
    /\ EcoHotelOf(locals.alternatives) # <<>>
    /\ EcoHotelOf(locals.alternatives)[1].savings.absolute_kg > 0

\* ------------------------------------------------------------------ C28
IdsInOrder(alternatives) ==
    [i \in 1..Len(alternatives) |-> alternatives[i].alternative_id]

\* C28: whenever alt_combined is produced it is the last element of the
\* engine's sorted list, its engine-level percentage being 0 and those of
\* alt_train and alt_eco_hotel strictly positive; so it is returned only
\* when max_alternatives >= 3; and the list POST /v1/assess returns, whose
\* percentages are written after the sort and the trim, keeps the engine's
\* order whatever the percentages written.
C28_CombinedIsLast ==
    /\ (Finished("generate_alternatives")
        /\ "alt_combined" \in AlternativeIds(locals.alternatives))
       => /\ \A i \in 1..Len(locals.alternatives) :
                IF locals.alternatives[i].alternative_id = "alt_combined"
                THEN locals.alternatives[i].savings.percentage = 0
                ELSE locals.alternatives[i].savings.percentage > 0
          /\ request.max_alternatives >= Len(locals.alternatives)
             => response.alternatives[Len(response.alternatives)].alternative_id
                    = "alt_combined"
          /\ "alt_combined" \in AlternativeIds(response.alternatives)
             => request.max_alternatives >= 3
    /\ (Finished("/v1/assess") /\ response.status = 200)
       => /\ IdsInOrder(response.lower_impact_alternatives)
                = IdsInOrder(
                      IF Get(request.data.options, "include_alternatives", FALSE)
                      THEN generate_alternatives(
                               request.data.segments,
                               Get(request.data.options, "alternative_count",
                                   DEFAULT_ALTERNATIVE_COUNT))
                      ELSE <<>>)
          /\ \A k \in 1..Len(response.lower_impact_alternatives) :
                response.lower_impact_alternatives[k].alternative_id = "alt_combined"
                => /\ k = Len(response.lower_impact_alternatives)
                   /\ k = 3

\* POST /v1/assess returns the three alternatives, alt_combined last with
\* the largest of the percentages written.
C28_Witness ==
    /\ Finished("/v1/assess")
    /\ response.status = 200
    /\ Len(response.lower_impact_alternatives) = 3
    /\ response.lower_impact_alternatives[3].alternative_id = "alt_combined"
    /\ \A k \in 1..2 :
          response.lower_impact_alternatives[3].savings.percentage
              > response.lower_impact_alternatives[k].savings.percentage

\* What holds of the engine's list: alt_combined, of percentage 0, is its
\* last element; the percentage of alt_eco_hotel is strictly positive; that
\* of alt_train is never negative and is 0.0 when the flights replaced save
\* less than 0.05% of the flight emissions, the stable sort then keeping
\* alt_train, appended first, ahead of alt_combined.  The rest is as C28
\* states it.
C28_CombinedIsLastByStableSort ==
    /\ (Finished("generate_alternatives")
        /\ "alt_combined" \in AlternativeIds(locals.alternatives))
       => /\ \A i \in 1..Len(locals.alternatives) :
                CASE locals.alternatives[i].alternative_id = "alt_combined" ->
                         locals.alternatives[i].savings.percentage = 0
                  [] locals.alternatives[i].alternative_id = "alt_eco_hotel" ->
                         locals.alternatives[i].savings.percentage > 0
                  [] OTHER ->
                         locals.alternatives[i].savings.percentage >= 0
          /\ request.max_alternatives >= Len(locals.alternatives)
             => /\ response.alternatives[Len(response.alternatives)].alternative_id
                       = "alt_combined"
                /\ \A k \in 1..(Len(response.alternatives) - 1) :
                      response.alternatives[k].alternative_id # "alt_combined"
          /\ "alt_combined" \in AlternativeIds(response.alternatives)
             => request.max_alternatives >= 3
    /\ (Finished("/v1/assess") /\ response.status = 200)
       => /\ IdsInOrder(response.lower_impact_alternatives)
                = IdsInOrder(
                      IF Get(request.data.options, "include_alternatives", FALSE)
                      THEN generate_alternatives(
                               request.data.segments,
                               Get(request.data.options, "alternative_count",
                                   DEFAULT_ALTERNATIVE_COUNT))
                      ELSE <<>>)
          /\ \A k \in 1..Len(response.lower_impact_alternatives) :
                response.lower_impact_alternatives[k].alternative_id = "alt_combined"
                => /\ k = Len(response.lower_impact_alternatives)
                   /\ k = 3

\* The longest itinerary: alt_train and alt_combined both have percentage
\* 0 and alt_combined is returned last.
C28_WitnessTie ==
    /\ Finished("generate_alternatives")
    /\ request.segments = LongItinerary
    /\ request.max_alternatives = 3
    /\ IdsInOrder(response.alternatives) = <<"alt_eco_hotel", "alt_train", "alt_combined">>
    /\ response.alternatives[2].savings.percentage = 0
    /\ response.alternatives[2].savings.absolute_kg > 0

\* ------------------------------------------------------------------ C29
\* What the claim says the score depends on: the haul type of the first
\* flight in request order (None without a flight), whether a flight has a
\* carrier code, and the countries of the hotels.
FirstFlightHaul(segments) ==
    LET flights == SelectSeq(segments, LAMBDA seg : IsType(seg, "flight"))
    IN  IF flights = <<>> THEN None
        ELSE calculate_flight_emissions(Upper(Get(flights[1], "origin", "")),
                                        Upper(Get(flights[1], "destination", "")),
                                        Get(flights[1], "cabin_class", "economy")).haul_type

HasCarrierCode(segments) ==
    \E i \in 1..Len(segments) :
        IsType(segments[i], "flight") /\ Truthy(segments[i], "carrier_code")

HotelCountries(segments) ==
    {Upper(segments[i].location.country_code) :
        i \in {j \in 1..Len(segments) : IsType(segments[j], "hotel")}}

\* The grid quality an assessment tracks, as a function of the countries of
\* its hotels alone.
QualityOfCountries(countries) ==
    LET qualities == {LowerSource(get_grid_intensity(c).source) : c \in countries}
    IN  IF "measured" \in qualities THEN "measured"
        ELSE IF "estimated" \in qualities THEN "estimated"
        ELSE "default"

FactorNames(factors) == {factors[i].factor : i \in 1..Len(factors)}

\* C29: the haul-type adjustment is applied at most once per assessment and
\* is that of the first flight in request order: the confidence score is a
\* function of the haul type of the first flight, of carrier-code presence
\* and of the hotel countries alone (the base score plus the carrier bonus,
\* the adjustment of the grid quality of the hotel countries and the haul
\* adjustment of the first flight), whatever the haul types of the later
\* flights; an itinerary without a flight gets no haul adjustment.
C29_HaulOfFirstFlight ==
    (Finished("/v1/assess") /\ response.status = 200)
    => LET segments == request.data.segments
           names == FactorNames(response.confidence_score.factors)
           first == FirstFlightHaul(segments)
           carrier == IF HasCarrierCode(segments) THEN CARRIER_BONUS ELSE 0
           grid == grid_adjustment(QualityOfCountries(HotelCountries(segments)))
       IN  /\ ("short_haul_accuracy" \in names) = (first = "short")
           /\ ("long_haul_route" \in names) = (first = "long")
           /\ response.confidence_score.score
                  = Min(100, Max(0, BASE_SCORE + carrier + grid + haul_adjustment(first)))
           /\ first = None
              => response.confidence_score.score
                     = Min(100, Max(0, BASE_SCORE + carrier + grid))

\* A short-haul flight followed by a long-haul one: the score is that of
\* the short-haul flight alone, with the short-haul factor only.
C29_Witness ==
    /\ Finished("/v1/assess")
    /\ response.status = 200
    /\ Len(request.data.segments) = 2
    /\ FirstFlightHaul(request.data.segments) = "short"
    /\ FirstFlightHaul(<<request.data.segments[2]>>) = "long"
    /\ "short_haul_accuracy" \in FactorNames(response.confidence_score.factors)
    /\ "long_haul_route" \notin FactorNames(response.confidence_score.factors)
    /\ response.confidence_score.score
           = assess_itinerary([request.data EXCEPT
                                  !.segments = <<request.data.segments[1]>>])
                 .confidence_score.score

====
